---- MODULE Spec2Model ----
(***************************************************************************)
(* Signal detection and deduplication engine of the monitor:               *)
(* the cooldown store and emission gate, the ranked-symbol cache and the   *)
(* rank-dependent dynamic parameter engine.                                *)
(*                                                                         *)
(* Time is counted in ticks since a UTC midnight; TicksPerMinute ticks     *)
(* make one minute (datetime has a finer resolution, the model only needs  *)
(* instants that are not on a minute boundary).                            *)
(***************************************************************************)
EXTENDS Integers, Sequences, FiniteSets, TLC

VARIABLES
    now,                 \* wall clock, datetime.now(timezone.utc), in ticks
    alerted_states,      \* state.py: alert key -> expiry
    cooldown_file,       \* contents of cooldown_status.json
    notification_queue,  \* state.py: queue.Queue of notifications
    running,             \* whether the process is up
    last,                \* the operation that made the last step, and its outcome
    cached_top_symbols,  \* state.py: ranked symbol list
    thr,                 \* worker threads inside _prepare_and_send_notification
    recorded,            \* history: per key the expiry its latest notification
                         \* recorded; the ranked lists the refreshes have built
    upd,                 \* threads refreshing cached_top_symbols
    rdr,                 \* worker threads reading cached_top_symbols
    call                 \* arguments and results of a function called on its own

vars == <<now, alerted_states, cooldown_file, notification_queue, running, last,
          cached_top_symbols, thr, recorded, upd, rdr, call>>

-----------------------------------------------------------------------------
(* Bounds of the model *)

TicksPerMinute == 2
MaxTime == 4
MaxDelay == 1
MaxQueue == 1
MaxRanks == 3
MaxConcTime == 2
MaxVolume == 2
MaxWorkers == 2
MaxSends == 2
MaxZones == 3
MaxLevel == 3
MaxStrength == 2
MantissaBits == 3
MaxPrice == 64
MaxSwings == 2

(* Program constants *)

MinutesPerDay == 1440
MinBars == 50

DayTicks == MinutesPerDay * TicksPerMinute

Min(a, b) == IF a <= b THEN a ELSE b
Max(a, b) == IF a >= b THEN a ELSE b

(* Numbers the program holds as floats are exact rationals <<n, d>>, d > 0. *)
R(n, d) == <<n, d>>
RInt(n) == <<n, 1>>
RLe(a, b) == a[1] * b[2] <= b[1] * a[2]
RLt(a, b) == a[1] * b[2] < b[1] * a[2]
REq(a, b) == a[1] * b[2] = b[1] * a[2]
RAdd(a, b) == <<a[1] * b[2] + b[1] * a[2], a[2] * b[2]>>
RSub(a, b) == <<a[1] * b[2] - b[1] * a[2], a[2] * b[2]>>
RMul(a, b) == <<a[1] * b[1], a[2] * b[2]>>
RDivInt(a, k) == <<a[1], a[2] * k>>
RMin(a, b) == IF RLe(a, b) THEN a ELSE b
RMax(a, b) == IF RLe(b, a) THEN a ELSE b

\* Python's int(): truncation towards zero.
IntTrunc(a) == IF a[1] >= 0 THEN a[1] \div a[2] ELSE -((-a[1]) \div a[2])

\* Python's round(): to the nearest integer, a tie to the even one.
PyRound(a) ==
    LET f == a[1] \div a[2]
        twice == 2 * (a[1] - f * a[2])
    IN IF twice < a[2] THEN f
       ELSE IF twice > a[2] THEN f + 1
       ELSE IF f % 2 = 0 THEN f ELSE f + 1

-----------------------------------------------------------------------------
(* app/utils.py *)

\* A timeframe string "<num><unit>" is the record [num, unit]; a string int()
\* cannot parse, or shorter than two characters, has unit "?".
timeframe_to_minutes(tf_str) ==
    CASE tf_str.unit = "m" -> tf_str.num
      [] tf_str.unit = "h" -> tf_str.num * 60
      [] tf_str.unit = "d" -> tf_str.num * 24 * 60
      [] tf_str.unit = "w" -> tf_str.num * 7 * 24 * 60
      [] OTHER -> 0

\* datetime.replace(hour, minute, second=0, microsecond=0) of the instant t.
ReplaceHM(t, hour, minute) ==
    (t - (t % DayTicks)) + (hour * 60 + minute) * TicksPerMinute

\* Mutant: the period counted from now, not from the start of its bucket.
calculate_cooldown_time_Unaligned(now_utc, minutes, align_to_period_end) ==
    IF RLe(minutes, RInt(0)) THEN now_utc + TicksPerMinute
    ELSE now_utc + IntTrunc(RMul(minutes, RInt(TicksPerMinute)))

\* now_utc is the instant datetime.now() returns inside the call; minutes is
\* a rational (the callers pass tf_minutes * cooldown_mult, a float).
\* timedelta(minutes=...) is cut to the tick.
calculate_cooldown_time(now_utc, minutes, align_to_period_end) ==
    IF ~align_to_period_end
    THEN IF RLe(minutes, RInt(0)) THEN now_utc + TicksPerMinute
         ELSE now_utc + IntTrunc(RMul(minutes, RInt(TicksPerMinute)))
    ELSE LET period_minutes == IntTrunc(minutes) IN
         IF period_minutes <= 0 THEN now_utc + TicksPerMinute
         ELSE IF period_minutes >= MinutesPerDay
         THEN ReplaceHM(now_utc + DayTicks, 0, 0)
         ELSE LET total_minutes_of_day == (now_utc % DayTicks) \div TicksPerMinute
                  start_minute_of_period ==
                      (total_minutes_of_day \div period_minutes) * period_minutes
                  period_start_time ==
                      ReplaceHM(now_utc, start_minute_of_period \div 60,
                                start_minute_of_period % 60)
                  period_end_time ==
                      period_start_time + period_minutes * TicksPerMinute
              IN IF period_end_time < now_utc
                 THEN period_end_time + period_minutes * TicksPerMinute
                 ELSE period_end_time

-----------------------------------------------------------------------------
(* app/analysis/indicators.py: the dynamic parameter engine *)

\* A dyn_conf dictionary is a record: keys is the set of keys it holds, the
\* other fields are the values of those keys (unused when the key is absent).
Has(conf, key) == key \in conf.keys
Get(conf, key, default) == IF Has(conf, key) THEN conf[key] ELSE default
Truthy(conf, key) == Has(conf, key) /\ conf[key][1] # 0

\* list.index(symbol) + 1; 0 stands for the ValueError of an absent symbol.
RankOf(cached, symbol) ==
    IF \E i \in 1..Len(cached) : cached[i] = symbol
    THEN CHOOSE i \in 1..Len(cached) :
             cached[i] = symbol /\ \A j \in 1..(i - 1) : cached[j] # symbol
    ELSE 0

RECURSIVE InsertTier(_, _)
InsertTier(sorted, tier) ==
    IF sorted = <<>> THEN <<tier>>
    ELSE IF tier.up_to_rank < Head(sorted).up_to_rank THEN <<tier>> \o sorted
    ELSE <<Head(sorted)>> \o InsertTier(Tail(sorted), tier)

\* sorted(tiers, key=up_to_rank): stable.
RECURSIVE SortTiers(_)
SortTiers(tiers) ==
    IF tiers = <<>> THEN <<>>
    ELSE InsertTier(SortTiers(SubSeq(tiers, 1, Len(tiers) - 1)), tiers[Len(tiers)])

\* max(min_val, min(value, max_val))
Clamp(value, min_val, max_val) == RMax(min_val, RMin(value, max_val))

RECURSIVE FirstTier(_, _, _)
FirstTier(tiers, rank, default_val) ==
    IF tiers = <<>> THEN default_val
    ELSE IF rank <= Head(tiers).up_to_rank
         THEN (IF Head(tiers).has_val THEN Head(tiers).val ELSE default_val)
         ELSE FirstTier(Tail(tiers), rank, default_val)

\* Lines 24-80 of _calculate_dynamic_value: the value for a rank found at line
\* 20, cached_len being len(cached_top_symbols) as read at line 38.
DynamicValueAt(rank, cached_len, dyn_conf, fallback_value, config) ==
    LET method == Get(dyn_conf, "method", "linear")
        uses_mult == Has(dyn_conf, "min_multiplier")
        min_val_key == IF Has(dyn_conf, "min_multiplier") THEN "min_multiplier" ELSE "min_count"
        max_val_key == IF Has(dyn_conf, "max_multiplier") THEN "max_multiplier" ELSE "max_count"
        default_val_key ==
            IF Has(dyn_conf, "default_multiplier") THEN "default_multiplier" ELSE "default_count"
        min_val == Get(dyn_conf, min_val_key, fallback_value)
        max_val == Get(dyn_conf, max_val_key, RMul(min_val, RInt(2)))
        default_val == Get(dyn_conf, default_val_key, max_val)
        is_count == min_val_key = "min_count"
        Out(value) == IF is_count THEN RInt(PyRound(Clamp(value, min_val, max_val)))
                      ELSE Clamp(value, min_val, max_val)
    IN IF method \in {"linear", "linear_stepped"}
       THEN LET total_ranks_applied == Min(cached_len, config.top_n_for_signals) IN
            IF rank > total_ranks_applied THEN default_val
            ELSE IF method = "linear"
            THEN IF total_ranks_applied <= 1 THEN min_val
                 ELSE LET slope == RDivInt(RSub(max_val, min_val), total_ranks_applied - 1)
                          value == RAdd(min_val, RMul(RInt(rank - 1), slope))
                      IN Out(value)
            ELSE LET step_size == Get(dyn_conf, "rank_step_size", 10) IN
                 IF step_size <= 0 THEN min_val
                 ELSE LET num_steps == (total_ranks_applied + step_size - 1) \div step_size IN
                      IF num_steps <= 1 THEN min_val
                      ELSE LET increment_per_step ==
                                   RDivInt(RSub(max_val, min_val), num_steps - 1)
                               current_step_index == (rank - 1) \div step_size
                               value == RAdd(min_val,
                                             RMul(RInt(current_step_index), increment_per_step))
                           IN Out(value)
       ELSE IF rank > Get(dyn_conf, "apply_to_rank_n", 100) THEN default_val
       ELSE IF method = "stepped"
       THEN LET tiers == SortTiers(Get(dyn_conf, "tiers", <<>>)) IN
            FirstTier(tiers, rank, default_val)
       ELSE fallback_value

\* Mutant: a symbol that is not ranked gets the caller's fallback.
calculate_dynamic_value_AbsentGetsFallback(symbol, dyn_conf, fallback_value, config, cached) ==
    IF ~Get(dyn_conf, "enabled", FALSE) THEN fallback_value
    ELSE LET rank == RankOf(cached, symbol) IN
         IF rank = 0 THEN fallback_value
         ELSE DynamicValueAt(rank, Len(cached), dyn_conf, fallback_value, config)

\* _calculate_dynamic_value run without interruption on the list `cached`.
calculate_dynamic_value(symbol, dyn_conf, fallback_value, config, cached) ==
    IF ~Get(dyn_conf, "enabled", FALSE) THEN fallback_value
    ELSE LET rank == RankOf(cached, symbol) IN
         IF rank = 0
         THEN IF Truthy(dyn_conf, "default_multiplier") THEN dyn_conf.default_multiplier
              ELSE IF Truthy(dyn_conf, "default_count") THEN dyn_conf.default_count
              ELSE fallback_value
         ELSE DynamicValueAt(rank, Len(cached), dyn_conf, fallback_value, config)

get_dynamic_volume_multiplier(symbol, config, fallback_multiplier, cached) ==
    calculate_dynamic_value(symbol, config.dynamic_volume_multipliers,
                            fallback_multiplier, config, cached)

\* A DataFrame is [none, rows]: none for the None the funding scan passes,
\* rows the candles [timestamp, volume] (the other columns are not read here).
\* Returns is_over; now_utc is the instant datetime.now() returns at line 117.
is_realtime_volume_over(df, tf_minutes, volume_ma_period, multiplier, now_utc) ==
    LET n == Len(df.rows) IN
    IF n < volume_ma_period + 1 \/ volume_ma_period < 1 THEN FALSE
    ELSE LET current == df.rows[n]
             RECURSIVE SumVol(_, _)
             SumVol(i, j) == IF i > j THEN 0 ELSE df.rows[i].volume + SumVol(i + 1, j)
             volume_ma == R(SumVol(n - volume_ma_period, n - 1), volume_ma_period)
             elapsed == R(now_utc - current.timestamp, TicksPerMinute)
             MIN_TIME_RATIO == R(1, 20)
             time_ratio ==
                 IF tf_minutes > 0
                 THEN RMin(RMax(RDivInt(elapsed, tf_minutes), MIN_TIME_RATIO), RInt(1))
                 ELSE RInt(1)
             dynamic_baseline == RMul(volume_ma, time_ratio)
         IN RLt(RMul(dynamic_baseline, multiplier), RInt(current.volume))

-----------------------------------------------------------------------------
(* Inputs of the emission gate *)

\* A symbol "BASE/QUOTE:QUOTE" of the swap market.
Sym(base) == [base |-> base, quote |-> "USDT"]

Bases == {"A", "B"}
Symbols == {Sym(b) : b \in Bases}
Timeframes == {[num |-> 1, unit |-> "m"]}

NoConf == [keys |-> {}]

\* config.json as loaded: B is a static (white-listed) symbol, the volume
\* multiplier grows linearly with the rank.
Config ==
    [static_symbols |-> <<"B">>,
     top_n_for_signals |-> 2,
     level_breakout |-> [volume_ma_period |-> 2],
     dynamic_volume_multipliers |->
         [keys |-> {"enabled", "method", "min_multiplier", "max_multiplier"},
          enabled |-> TRUE, method |-> "linear",
          min_multiplier |-> R(3, 2), max_multiplier |-> R(3, 1)]]

\* f"{symbol}_{timeframe}_{KIND}_{config_index}"
AlertKey(symbol, timeframe, kind) ==
    [symbol |-> symbol, timeframe |-> timeframe, kind |-> kind]

\* The evaluators that fire in the model: KDJ on A, the run-length evaluator
\* on B.
Kinds(symbol) == IF symbol.base = "A" THEN {"KDJ"} ELSE {"CONTINUOUS"}
Keys == UNION {{AlertKey(s, tf, k) : tf \in Timeframes, k \in Kinds(s)} : s \in Symbols}
NoKey == AlertKey(Sym("-"), [num |-> 0, unit |-> "?"], "-")

\* The signal_info dictionaries the evaluators build (strategies.py 170-184,
\* 525-536); exempt_static_on_volume is read by the gate with default False.
SignalInfosAll(symbol, timeframe) ==
    {[alert_key |-> AlertKey(symbol, timeframe, "KDJ"),
      volume_must_confirm |-> vc, exempt_static_on_volume |-> ex,
      fallback_multiplier |-> R(3, 2),
      cooldown_logic |-> "", cooldown_mult |-> R(1, 2)] : vc \in BOOLEAN, ex \in BOOLEAN}
    \cup
    {[alert_key |-> AlertKey(symbol, timeframe, "CONTINUOUS"),
      volume_must_confirm |-> vc, exempt_static_on_volume |-> ex,
      fallback_multiplier |-> R(3, 2),
      cooldown_logic |-> "align_to_period_end", cooldown_mult |-> R(1, 1)] :
         vc \in BOOLEAN, ex \in BOOLEAN}

SignalInfos(symbol, timeframe) ==
    {si \in SignalInfosAll(symbol, timeframe) : si.alert_key.kind \in Kinds(symbol)}

\* Start of the candle that is forming at instant t.
BarStart(t, tf_minutes) == t - (t % (tf_minutes * TicksPerMinute))

DataFrame(start, tf_minutes, volumes) ==
    [none |-> FALSE,
     rows |-> [i \in 1..Len(volumes) |->
                  [timestamp |-> start - (Len(volumes) - i) * tf_minutes * TicksPerMinute,
                   volume |-> volumes[i]]]]
NoneFrame == [none |-> TRUE, rows |-> <<>>]

\* Candle series handed to the gate at instant t: quiet last bar, heavy last
\* bar, a series too short for the volume average, and None.
Frames(t, timeframe) ==
    LET tf_minutes == timeframe_to_minutes(timeframe)
        start == BarStart(t, tf_minutes)
    IN {DataFrame(start, tf_minutes, <<4, 4, 1>>), DataFrame(start, tf_minutes, <<4, 4, 40>>),
        DataFrame(start, tf_minutes, <<4, 4>>), NoneFrame}

-----------------------------------------------------------------------------
(* app/state.py: the cooldown store *)

EmptyStates == [k \in {} |-> 0]
Restrict(f, S) == [k \in S |-> f[k]]

\* datetime.isoformat() of a UTC instant, and datetime.fromisoformat().
isoformat(t) ==
    [date |-> t \div DayTicks,
     hour |-> (t % DayTicks) \div (60 * TicksPerMinute),
     minute |-> ((t % DayTicks) \div TicksPerMinute) % 60,
     second |-> t % TicksPerMinute,
     tz |-> "+00:00"]
fromisoformat(v) ==
    ((v.date * 24 + v.hour) * 60 + v.minute) * TicksPerMinute + v.second

NoFile == [kind |-> "absent", data |-> EmptyStates]
CorruptFile == [kind |-> "corrupt", data |-> EmptyStates]
JsonFile(states) == [kind |-> "json", data |-> [k \in DOMAIN states |-> isoformat(states[k])]]

\* Mutant: the filter of line 38 left out.
active_states_NoPrune(states, now_utc) == states

\* Line 38: {k: v for k, v in alerted_states.items() if v > now_utc}
active_states(states, now_utc) ==
    Restrict(states, {k \in DOMAIN states : states[k] > now_utc})

WriteOutcomes == {"ok", "open_fails", "dump_fails"}

\* Mutant: the map refilled only after the file was written.
SavedStates_UpdateAfterWrite(states, now_utc, outcome) ==
    IF outcome = "ok" THEN active_states(states, now_utc) ELSE EmptyStates

\* save_alert_states, lines 36-45: the in-memory map after the call. Lines
\* 38-40 run before the file is opened, so the outcome of the write does not
\* reach the map; the except clause logs and returns.
SavedStates(states, now_utc, outcome) == active_states(states, now_utc)

\* Lines 41-42: the file after open(..., 'w') and json.dump.
WriteFile(file, active, outcome) ==
    CASE outcome = "ok" -> JsonFile(active)
      [] outcome = "open_fails" -> file
      [] OTHER -> CorruptFile

\* Mutant: the expiries are read back without their seconds.
LoadedStates_WholeMinutes(file, now_utc) ==
    IF file.kind = "json"
    THEN LET loaded_states ==
                 [k \in DOMAIN file.data |->
                     fromisoformat([file.data[k] EXCEPT !.second = 0])]
         IN active_states(loaded_states, now_utc)
    ELSE EmptyStates

\* load_alert_states, lines 19-31: the map after loading `file` at now_utc.
LoadedStates(file, now_utc) ==
    IF file.kind = "json"
    THEN LET loaded_states == [k \in DOMAIN file.data |-> fromisoformat(file.data[k])]
         IN active_states(loaded_states, now_utc)
    ELSE EmptyStates

-----------------------------------------------------------------------------
(* app/analysis/strategies.py: _prepare_and_send_notification *)

\* Mutant: the comparison of line 40 turned around.
InCooldown_Inverted(states, alert_key, now_utc) ==
    alert_key \in DOMAIN states /\ now_utc > states[alert_key]

\* Line 40: the key is cooling.
InCooldown(states, alert_key, now_utc) ==
    alert_key \in DOMAIN states /\ now_utc < states[alert_key]

\* Mutant: every static symbol exempted, whatever the strategy asks for.
FinalVolumeConfirm_AlwaysExempt(config, symbol, signal_info) ==
    LET static_bases == {config.static_symbols[i] : i \in 1..Len(config.static_symbols)}
    IN IF symbol.base \in static_bases THEN FALSE ELSE signal_info.volume_must_confirm

\* Lines 43-50.
FinalVolumeConfirm(config, symbol, signal_info) ==
    LET static_bases == {config.static_symbols[i] : i \in 1..Len(config.static_symbols)}
        is_static_symbol == symbol.base \in static_bases
    IN IF signal_info.exempt_static_on_volume /\ is_static_symbol THEN FALSE
       ELSE signal_info.volume_must_confirm

\* Lines 43-66: what the call decides once the key is not cooling. t_vol is
\* the clock inside is_realtime_volume_over. A None series raises inside
\* is_realtime_volume_over (df.copy()).
VolumeOutcome(config, symbol, timeframe, df, signal_info, cached, t_vol) ==
    IF df.none THEN <<"raised", "-">>
    ELSE LET dynamic_multiplier ==
                 get_dynamic_volume_multiplier(symbol, config,
                                               signal_info.fallback_multiplier, cached)
             is_vol_over ==
                 is_realtime_volume_over(df, timeframe_to_minutes(timeframe),
                                         config.level_breakout.volume_ma_period,
                                         dynamic_multiplier, t_vol)
         IN IF is_vol_over
            THEN <<"sent", "yes">>
            ELSE IF FinalVolumeConfirm(config, symbol, signal_info)
                 THEN <<"filtered", "no">>
                 ELSE <<"sent", "no">>

\* Lines 34-66: what the call decides before it sends. t0 is the clock at
\* line 34.
GateOutcome(config, symbol, timeframe, df, signal_info, cached, states, t0, t_vol) ==
    IF InCooldown(states, signal_info.alert_key, t0) THEN <<"cooldown", "-">>
    ELSE VolumeOutcome(config, symbol, timeframe, df, signal_info, cached, t_vol)

\* Mutant: the cooldown counted from the start of the day.
CooldownExpiry_FromMidnight(signal_info, tf_minutes, t) ==
    calculate_cooldown_time(t - (t % DayTicks), RInt(tf_minutes), TRUE)

\* Lines 84-88: the expiry stored for the key; t is the clock inside
\* calculate_cooldown_time (line 88 leaves align_to_period_end at its default).
CooldownExpiry(signal_info, tf_minutes, t) ==
    IF signal_info.cooldown_logic = "align_to_period_end"
    THEN calculate_cooldown_time(t, RInt(tf_minutes), TRUE)
    ELSE calculate_cooldown_time(t, RMul(RInt(tf_minutes), signal_info.cooldown_mult), TRUE)

\* Lines 85/88: alerted_states[alert_key] = expiry
Inserted(states, alert_key, expiry) ==
    [k \in DOMAIN states \cup {alert_key} |-> IF k = alert_key THEN expiry ELSE states[k]]

\* Line 82, send_alert: notification_queue.put(...)
Enqueued(queue, symbol, alert_key) ==
    Append(queue, [symbol |-> symbol, key |-> alert_key])

-----------------------------------------------------------------------------
(* The process run one call at a time: every handler is one step *)

MkLast(op) ==
    [op |-> op, key |-> NoKey, outcome |-> "-", confirm |-> FALSE, exempt |-> FALSE,
     over |-> "-", at |-> 0, expiry |-> 0, write |-> "-"]

NoRecorded == [k \in Keys |-> 0]
RankedList == <<Sym("A"), Sym("B")>>

OtherIdle ==
    /\ thr = <<>>
    /\ recorded = <<>>
    /\ upd = <<>>
    /\ rdr = <<>>
    /\ call = <<>>

Init ==
    /\ now = 0
    /\ alerted_states = EmptyStates
    /\ cooldown_file = NoFile
    /\ notification_queue = <<>>
    /\ running = FALSE
    /\ last = MkLast("init")
    /\ cached_top_symbols = RankedList
    /\ OtherIdle

\* Time passes.
Tick ==
    /\ now < MaxTime
    /\ now' = now + 1
    /\ last' = MkLast("tick")
    /\ UNCHANGED <<alerted_states, cooldown_file, notification_queue, running,
                   cached_top_symbols, thr, recorded, upd, rdr, call>>

\* main(), lines 37-59: load_alert_states, then the consumer and the scans run.
main_start ==
    /\ ~running
    /\ running' = TRUE
    /\ alerted_states' = LoadedStates(cooldown_file, now)
    /\ last' = MkLast("load")
    /\ UNCHANGED <<now, cooldown_file, notification_queue, cached_top_symbols,
                   thr, recorded, upd, rdr, call>>

\* One call of _prepare_and_send_notification by an evaluator, from line 34 to
\* its return. The clock may move on between line 34, the clock read inside
\* calculate_cooldown_time (t_cd) and the one inside save_alert_states (t_save).
prepare_and_send_notification ==
    /\ running
    /\ \E symbol \in Symbols, timeframe \in Timeframes :
       \E signal_info \in SignalInfos(symbol, timeframe), df \in Frames(now, timeframe) :
          LET alert_key == signal_info.alert_key
              out == GateOutcome(Config, symbol, timeframe, df, signal_info,
                                 cached_top_symbols, alerted_states, now, now)
              seen == [MkLast("notify") EXCEPT
                          !.key = alert_key, !.outcome = out[1], !.over = out[2],
                          !.confirm = signal_info.volume_must_confirm,
                          !.exempt = signal_info.exempt_static_on_volume]
          IN \/ /\ out[1] # "sent"
                /\ last' = seen
                /\ UNCHANGED <<now, alerted_states, cooldown_file, notification_queue>>
             \/ /\ out[1] = "sent"
                /\ Len(notification_queue) < MaxQueue
                /\ \E d2 \in 0..MaxDelay, d3 \in 0..MaxDelay, write \in WriteOutcomes :
                      LET t_cd == now + d2
                          t_save == t_cd + d3
                          expiry == CooldownExpiry(signal_info,
                                                   timeframe_to_minutes(timeframe), t_cd)
                          inserted == Inserted(alerted_states, alert_key, expiry)
                      IN /\ t_save <= MaxTime
                         /\ now' = t_save
                         /\ notification_queue' =
                                Enqueued(notification_queue, symbol, alert_key)
                         /\ alerted_states' = SavedStates(inserted, t_save, write)
                         /\ cooldown_file' =
                                WriteFile(cooldown_file, active_states(inserted, t_save), write)
                         /\ last' = [seen EXCEPT !.at = t_cd, !.expiry = expiry,
                                                 !.write = write]
    /\ UNCHANGED <<running, cached_top_symbols, thr, recorded, upd, rdr, call>>

\* notification_consumer: one item taken from the queue and delivered.
notification_consumer ==
    /\ running
    /\ notification_queue # <<>>
    /\ notification_queue' = Tail(notification_queue)
    /\ last' = MkLast("consume")
    /\ UNCHANGED <<now, alerted_states, cooldown_file, running, cached_top_symbols,
                   thr, recorded, upd, rdr, call>>

\* handle_exit: save_alert_states, then sys.exit; the process memory is gone.
handle_exit ==
    /\ running
    /\ \E write \in WriteOutcomes :
          /\ cooldown_file' = WriteFile(cooldown_file, active_states(alerted_states, now), write)
          /\ last' = [MkLast("exit") EXCEPT !.write = write]
    /\ running' = FALSE
    /\ alerted_states' = EmptyStates
    /\ notification_queue' = <<>>
    /\ UNCHANGED <<now, cached_top_symbols, thr, recorded, upd, rdr, call>>

Next ==
    \/ Tick
    \/ main_start
    \/ prepare_and_send_notification
    \/ notification_consumer
    \/ handle_exit

Spec == Init /\ [][Next]_vars

-----------------------------------------------------------------------------
(* Properties of the emission gate, one call at a time (Spec) *)

\* The step is a call of _prepare_and_send_notification for the key k.
CallFor(k) == last'.op = "notify" /\ last'.key = k
\* The store holds k with an expiry later than the clock.
HoldsLater(states, k, t) == \E j \in DOMAIN states : j = k /\ states[j] > t
GrewBy(k) ==
    /\ Len(notification_queue') = Len(notification_queue) + 1
    /\ notification_queue'[Len(notification_queue')].key = k
    /\ SubSeq(notification_queue', 1, Len(notification_queue)) = notification_queue
IsStatic(symbol) == \E i \in 1..Len(Config.static_symbols) : Config.static_symbols[i] = symbol.base

\* C1: a call enqueues a notification for key k only if, at the check, the
\* store has no entry for k or its expiry is not later than the clock; when the
\* store holds k with expiry > now the call enqueues nothing and leaves the
\* store unchanged.
C1_EnqueueOnlyWhenNotCooling ==
    [][\A k \in Keys : CallFor(k) =>
          /\ Len(notification_queue') > Len(notification_queue)
                => (k \notin DOMAIN alerted_states \/ alerted_states[k] <= now)
          /\ HoldsLater(alerted_states, k, now)
                => /\ notification_queue' = notification_queue
                   /\ alerted_states' = alerted_states]_vars

C1_Witness ==
    /\ last.op = "notify" /\ last.outcome = "cooldown"
    /\ HoldsLater(alerted_states, last.key, now)
    /\ notification_queue = <<>>

C4_VolumeFilterChangesNothing ==
    [][\A k \in Keys :
          (/\ CallFor(k)
           /\ last'.confirm
           /\ ~(last'.exempt /\ IsStatic(k.symbol))
           /\ last'.over = "no")
          => /\ alerted_states' = alerted_states
             /\ cooldown_file' = cooldown_file
             /\ notification_queue' = notification_queue]_vars

C4_Witness ==
    /\ last.op = "notify" /\ last.outcome = "filtered"
    /\ last.confirm /\ last.over = "no"
    /\ last.key \notin DOMAIN alerted_states

\* The store with the entry of the accepted call for k written into it.
WithEntry(k, expiry) ==
    [j \in DOMAIN alerted_states \cup {k} |-> IF j = k THEN expiry ELSE alerted_states[j]]
SameAsFile ==
    /\ cooldown_file'.kind = "json"
    /\ DOMAIN cooldown_file'.data = DOMAIN alerted_states'
    /\ \A j \in DOMAIN alerted_states' :
          fromisoformat(cooldown_file'.data[j]) = alerted_states'[j]

C6_FailedWriteKeepsMemory ==
    [][\A k \in Keys : CallFor(k) =>
          /\ (last'.outcome = "sent" /\ last'.write # "ok")
                => LET ins == WithEntry(k, last'.expiry) IN
                   /\ running'
                   /\ \A j \in DOMAIN ins : ins[j] > now'
                         => j \in DOMAIN alerted_states' /\ alerted_states'[j] = ins[j]
          /\ (/\ HoldsLater(alerted_states, k, now)
              /\ (cooldown_file.kind # "json" \/ k \notin DOMAIN cooldown_file.data))
                => /\ last'.outcome = "cooldown"
                   /\ notification_queue' = notification_queue]_vars

\* A key whose entry never reached the file is suppressed.
C6_Witness ==
    /\ last.op = "notify" /\ last.outcome = "cooldown"
    /\ cooldown_file.kind # "json"
    /\ HoldsLater(alerted_states, last.key, now)

-----------------------------------------------------------------------------
(* calculate_cooldown_time on its own (SpecCooldown) *)

\* Timeframe strings of the configuration: minutes, hours, days, weeks, a
\* period that does not divide the day, zero, a negative number and a string
\* with an unknown unit.
CooldownTimeframes ==
    {[num |-> 1, unit |-> "m"], [num |-> 5, unit |-> "m"], [num |-> 7, unit |-> "m"],
     [num |-> 15, unit |-> "m"], [num |-> 1, unit |-> "h"], [num |-> 4, unit |-> "h"],
     [num |-> 23, unit |-> "h"], [num |-> 24, unit |-> "h"], [num |-> 1, unit |-> "d"],
     [num |-> 3, unit |-> "d"], [num |-> 1, unit |-> "w"], [num |-> 0, unit |-> "m"],
     [num |-> -1, unit |-> "m"], [num |-> 5, unit |-> "x"]}

\* The instants a call can read: every tick of two consecutive days.
CooldownClock == 0..(2 * DayTicks - 1)

CooldownIdle ==
    /\ alerted_states = <<>>
    /\ cooldown_file = <<>>
    /\ notification_queue = <<>>
    /\ running = TRUE
    /\ last = <<>>
    /\ cached_top_symbols = <<>>
    /\ thr = <<>>
    /\ recorded = <<>>
    /\ upd = <<>>
    /\ rdr = <<>>

InitCooldown ==
    /\ now \in CooldownClock
    /\ \E timeframe \in CooldownTimeframes :
          call = [op |-> "calculate_cooldown_time", timeframe |-> timeframe,
                  minutes |-> 0, result |-> 0, done |-> FALSE]
    /\ CooldownIdle

\* strategies.py line 85: calculate_cooldown_time(tf_minutes, align_to_period_end=True)
cooldown_call ==
    /\ ~call.done
    /\ LET tf_minutes == timeframe_to_minutes(call.timeframe) IN
       call' = [call EXCEPT !.minutes = tf_minutes,
                            !.result = calculate_cooldown_time(now, RInt(tf_minutes), TRUE),
                            !.done = TRUE]
    /\ UNCHANGED <<now, alerted_states, cooldown_file, notification_queue, running, last,
                   cached_top_symbols, thr, recorded, upd, rdr>>

NextCooldown == cooldown_call

SpecCooldown == InitCooldown /\ [][NextCooldown]_vars

\* C7: with align_to_period_end and a timeframe of p minutes the result is,
\* for 1 <= p < 1440, the end of the p-minute bucket counted from the UTC
\* midnight of now's day that contains now, strictly later than now and at
\* most p minutes after it; for p >= 1440 the next UTC midnight; for p <= 0
\* now + 1 minute.
C7_AlignedToBucketEnd ==
    call.done =>
        LET p == call.minutes
            midnight == now - (now % DayTicks)
            bucket == p * TicksPerMinute
        IN /\ (1 <= p /\ p < MinutesPerDay) =>
                  /\ call.result > midnight
                  /\ (call.result - midnight) % bucket = 0
                  /\ call.result - bucket <= now
                  /\ now < call.result
                  /\ call.result - now <= bucket
           /\ p >= MinutesPerDay =>
                  /\ call.result = midnight + DayTicks
                  /\ call.result > now
           /\ p <= 0 => call.result = now + TicksPerMinute

\* A 7-minute bucket that began before midnight and ends after it, read at
\* an instant that is not on a minute boundary.
C7_Witness ==
    /\ call.done
    /\ call.minutes = 7
    /\ now % TicksPerMinute # 0
    /\ now < DayTicks
    /\ call.result > DayTicks

-----------------------------------------------------------------------------
(* The linear method of _calculate_dynamic_value on its own (SpecDyn) *)

DynBases == <<"S1", "S2", "S3", "S4", "S5">>
DynRankedList(n) == [i \in 1..n |-> Sym(DynBases[i])]

\* Values of min_multiplier / max_multiplier, and of min_count / max_count
\* (counts are whole numbers in config.json).
DynMultipliers == {R(3, 2), R(5, 2), R(10, 1)}
DynCounts == {RInt(2), RInt(3), RInt(6)}

\* The dynamic_* sections the linear method reads: "method" written or left
\* to its default, the maximum written or left to its default of twice the
\* minimum, below, equal to or above the minimum.
DynConfs ==
    {[keys |-> {"enabled", "min_multiplier"} \cup mk \cup xk, enabled |-> TRUE,
      method |-> "linear", min_multiplier |-> lo, max_multiplier |-> hi] :
         lo \in DynMultipliers, hi \in DynMultipliers,
         mk \in {{}, {"method"}}, xk \in {{}, {"max_multiplier"}}}
    \cup
    {[keys |-> {"enabled", "min_count"} \cup mk \cup xk, enabled |-> TRUE,
      method |-> "linear", min_count |-> lo, max_count |-> hi] :
         lo \in DynCounts, hi \in DynCounts,
         mk \in {{}, {"method"}}, xk \in {{}, {"max_count"}}}

NoValue == <<0, 0>>

DynIdle ==
    /\ now = 0
    /\ alerted_states = <<>>
    /\ cooldown_file = <<>>
    /\ notification_queue = <<>>
    /\ running = TRUE
    /\ last = <<>>
    /\ thr = <<>>
    /\ recorded = <<>>
    /\ upd = <<>>
    /\ rdr = <<>>

InitDyn ==
    /\ \E n \in 1..MaxRanks : cached_top_symbols = DynRankedList(n)
    /\ \E dyn_conf \in DynConfs, top_n \in 1..MaxRanks :
          call = [op |-> "_calculate_dynamic_value", dyn_conf |-> dyn_conf,
                  top_n_for_signals |-> top_n,
                  values |-> [r \in 1..MaxRanks |-> NoValue]]
    /\ DynIdle

\* One call of _calculate_dynamic_value for a symbol of the ranked list; the
\* value it returns is kept under the symbol's position.
dynamic_value_call ==
    /\ \E r \in 1..Len(cached_top_symbols) :
          /\ call.values[r] = NoValue
          /\ call' = [call EXCEPT !.values[r] =
                         calculate_dynamic_value(cached_top_symbols[r], call.dyn_conf,
                                                 R(7, 1), call, cached_top_symbols)]
    /\ UNCHANGED <<now, alerted_states, cooldown_file, notification_queue, running, last,
                   cached_top_symbols, thr, recorded, upd, rdr>>

NextDyn == dynamic_value_call

SpecDyn == InitDyn /\ [][NextDyn]_vars

\* The minimum and the maximum the configuration states (the maximum left
\* out is twice the minimum), and the number of ranks applied.
DynMin == IF Has(call.dyn_conf, "min_multiplier") THEN call.dyn_conf.min_multiplier
          ELSE call.dyn_conf.min_count
DynMax == IF Has(call.dyn_conf, "max_multiplier") THEN call.dyn_conf.max_multiplier
          ELSE IF Has(call.dyn_conf, "max_count") THEN call.dyn_conf.max_count
          ELSE RMul(DynMin, RInt(2))
DynRanksApplied == Min(Len(cached_top_symbols), call.top_n_for_signals)

\* C10: for the linear method with N ranks applied and every rank r in 1..N
\* the output is non-decreasing in r when max >= min and non-increasing in r
\* when max < min, equals min at r = 1 and equals max at r = N.
C10_LinearMonotoneFromMinToMax ==
    \A r \in 1..DynRanksApplied : call.values[r] # NoValue =>
        /\ r = 1 => REq(call.values[r], DynMin)
        /\ r = DynRanksApplied => REq(call.values[r], DynMax)
        /\ \A q \in 1..(r - 1) : call.values[q] # NoValue =>
              IF RLe(DynMin, DynMax) THEN RLe(call.values[q], call.values[r])
              ELSE RLe(call.values[r], call.values[q])

-----------------------------------------------------------------------------
(* The scan workers of one cycle run concurrently (SpecConc) *)

\* ThreadPoolExecutor of run_signal_check_cycle: one worker per symbol of the
\* ranked list, each running _check_symbol_all_strategies for its symbol.
Threads == {"TechScan_0", "TechScan_1"}
ThreadSymbol(t) == IF t = "TechScan_0" THEN Sym("A") ELSE Sym("B")

\* The strategy parameters of this run: volume confirmation demanded, static
\* symbols exempted.
ThreadSignalInfo(t) ==
    CHOOSE si \in SignalInfos(ThreadSymbol(t), [num |-> 1, unit |-> "m"]) :
        si.volume_must_confirm /\ si.exempt_static_on_volume

\* A worker: pc is the line it is about to run, now_utc, size and
\* active_states are its local variables.
WorkerAt(pc) == [pc |-> pc, now_utc |-> 0, size |-> 0, active_states |-> EmptyStates]

NoSend == [key |-> NoKey, at |-> 0, previous |-> 0]

InitConc ==
    /\ now = 0
    /\ alerted_states = EmptyStates
    /\ cooldown_file = NoFile
    /\ notification_queue = <<>>
    /\ running = TRUE
    /\ last = NoSend
    /\ cached_top_symbols = RankedList
    /\ thr = [t \in Threads |-> WorkerAt("done")]
    /\ recorded = NoRecorded
    /\ upd = <<>>
    /\ rdr = <<>>
    /\ call = <<>>

ConcUnused == <<running, cached_top_symbols, upd, rdr, call>>

\* The worker goes on to line 82, or returns, as lines 43-66 decide.
AfterGate(t) ==
    {IF VolumeOutcome(Config, ThreadSymbol(t), [num |-> 1, unit |-> "m"], df,
                      ThreadSignalInfo(t), cached_top_symbols, now)[1] = "sent"
     THEN "send" ELSE "done" : df \in Frames(now, [num |-> 1, unit |-> "m"])}

TickConc ==
    /\ now < MaxConcTime
    /\ now' = now + 1
    /\ UNCHANGED <<alerted_states, cooldown_file, notification_queue, last, thr, recorded>>
    /\ UNCHANGED ConcUnused

\* run_signal_check_cycle, lines 179-181: the workers of the previous cycle
\* have all returned (the scheduler runs one instance of the job), the
\* workers of this one are submitted.
run_signal_check_cycle ==
    /\ \A t \in Threads : thr[t].pc = "done"
    /\ thr' = [t \in Threads |-> WorkerAt("ready")]
    /\ UNCHANGED <<now, alerted_states, cooldown_file, notification_queue, last, recorded>>
    /\ UNCHANGED ConcUnused

\* Lines 34-40: the clock is read, then alerted_states.get(alert_key).
gate_get(t) ==
    /\ thr[t].pc = "ready"
    /\ IF ThreadSignalInfo(t).alert_key \in DOMAIN alerted_states
       THEN thr' = [thr EXCEPT ![t].pc = "compare", ![t].now_utc = now]
       ELSE \E pc \in AfterGate(t) : thr' = [thr EXCEPT ![t].pc = pc]
    /\ UNCHANGED <<now, alerted_states, cooldown_file, notification_queue, last, recorded>>
    /\ UNCHANGED ConcUnused

\* Line 40: now_utc < alerted_states[alert_key]; the subscript raises KeyError
\* when the key is gone, which _check_symbol_all_strategies logs.
gate_compare(t) ==
    /\ thr[t].pc = "compare"
    /\ LET alert_key == ThreadSignalInfo(t).alert_key IN
       IF alert_key \notin DOMAIN alerted_states
       THEN thr' = [thr EXCEPT ![t] = WorkerAt("done")]
       ELSE IF thr[t].now_utc < alerted_states[alert_key]
       THEN thr' = [thr EXCEPT ![t] = WorkerAt("done")]
       ELSE \E pc \in AfterGate(t) : thr' = [thr EXCEPT ![t] = WorkerAt(pc)]
    /\ UNCHANGED <<now, alerted_states, cooldown_file, notification_queue, last, recorded>>
    /\ UNCHANGED ConcUnused

\* Line 82: send_alert. `last` keeps the latest notification: its key, its
\* instant and the expiry the previous notification of the key recorded.
thread_send_alert(t) ==
    /\ thr[t].pc = "send"
    /\ Len(notification_queue) < MaxQueue
    /\ LET alert_key == ThreadSignalInfo(t).alert_key IN
       /\ notification_queue' = Enqueued(notification_queue, ThreadSymbol(t), alert_key)
       /\ last' = [key |-> alert_key, at |-> now, previous |-> recorded[alert_key]]
    /\ thr' = [thr EXCEPT ![t].pc = "insert"]
    /\ UNCHANGED <<now, alerted_states, cooldown_file, recorded>>
    /\ UNCHANGED ConcUnused

\* Lines 84-88: alerted_states[alert_key] = calculate_cooldown_time(...)
thread_insert(t) ==
    /\ thr[t].pc = "insert"
    /\ LET alert_key == ThreadSignalInfo(t).alert_key
           expiry == CooldownExpiry(ThreadSignalInfo(t), 1, now)
       IN /\ alerted_states' = Inserted(alerted_states, alert_key, expiry)
          /\ recorded' = [recorded EXCEPT ![alert_key] = expiry]
    /\ thr' = [thr EXCEPT ![t].pc = "save"]
    /\ UNCHANGED <<now, cooldown_file, notification_queue, last>>
    /\ UNCHANGED ConcUnused

\* save_alert_states, lines 37-38: the clock is read and the iteration over
\* alerted_states.items() begins.
save_begin(t) ==
    /\ thr[t].pc = "save"
    /\ thr' = [thr EXCEPT ![t].pc = "iterate", ![t].now_utc = now,
                          ![t].size = Cardinality(DOMAIN alerted_states)]
    /\ UNCHANGED <<now, alerted_states, cooldown_file, notification_queue, last, recorded>>
    /\ UNCHANGED ConcUnused

\* Line 38: the iteration ends. A dictionary whose size changed meanwhile
\* raises RuntimeError, which line 44 catches: nothing is rebuilt or written.
save_iterate(t) ==
    /\ thr[t].pc = "iterate"
    /\ IF Cardinality(DOMAIN alerted_states) # thr[t].size
       THEN thr' = [thr EXCEPT ![t] = WorkerAt("done")]
       ELSE thr' = [thr EXCEPT ![t] =
                       [WorkerAt("clear") EXCEPT
                           !.active_states = active_states(alerted_states, thr[t].now_utc)]]
    /\ UNCHANGED <<now, alerted_states, cooldown_file, notification_queue, last, recorded>>
    /\ UNCHANGED ConcUnused

\* Line 39: alerted_states.clear()
save_clear(t) ==
    /\ thr[t].pc = "clear"
    /\ alerted_states' = EmptyStates
    /\ thr' = [thr EXCEPT ![t].pc = "update"]
    /\ UNCHANGED <<now, cooldown_file, notification_queue, last, recorded>>
    /\ UNCHANGED ConcUnused

\* Line 40: alerted_states.update(active_states)
save_update(t) ==
    /\ thr[t].pc = "update"
    /\ alerted_states' =
           [k \in DOMAIN alerted_states \cup DOMAIN thr[t].active_states |->
               IF k \in DOMAIN thr[t].active_states THEN thr[t].active_states[k]
               ELSE alerted_states[k]]
    /\ thr' = [thr EXCEPT ![t].pc = "write"]
    /\ UNCHANGED <<now, cooldown_file, notification_queue, last, recorded>>
    /\ UNCHANGED ConcUnused

\* Lines 41-45: the file is written, or the failure is logged.
save_write(t) ==
    /\ thr[t].pc = "write"
    /\ \E outcome \in WriteOutcomes :
          cooldown_file' = WriteFile(cooldown_file, thr[t].active_states, outcome)
    /\ thr' = [thr EXCEPT ![t] = WorkerAt("done")]
    /\ UNCHANGED <<now, alerted_states, notification_queue, last, recorded>>
    /\ UNCHANGED ConcUnused

\* notification_consumer on its own thread.
consumer_get ==
    /\ notification_queue # <<>>
    /\ notification_queue' = Tail(notification_queue)
    /\ UNCHANGED <<now, alerted_states, cooldown_file, last, thr, recorded>>
    /\ UNCHANGED ConcUnused

NextConc ==
    \/ TickConc
    \/ run_signal_check_cycle
    \/ consumer_get
    \/ \E t \in Threads :
          \/ gate_get(t)
          \/ gate_compare(t)
          \/ thread_send_alert(t)
          \/ thread_insert(t)
          \/ save_begin(t)
          \/ save_iterate(t)
          \/ save_clear(t)
          \/ save_update(t)
          \/ save_write(t)

SpecConc == InitConc /\ [][NextConc]_vars

\* C3: with the workers interleaved, a second notification for a key is
\* enqueued only at or after the expiry the previous notification of that
\* key recorded.
C3_OneNotificationPerWindow ==
    (last.key # NoKey /\ last.previous # 0) => last.at >= last.previous

-----------------------------------------------------------------------------
(* The ranked-symbol cache: provider and refresh *)

CacheBases == {"A", "B", "C"}

\* exchange.fetch_tickers(), reduced to the 24h quote volume of each base in
\* the primary market.
Tickers == [CacheBases -> 0..MaxVolume]

Range(seq) == {seq[i] : i \in 1..Len(seq)}
Perms(S) == {f \in [1..Cardinality(S) -> S] : \A i, j \in DOMAIN f : i # j => f[i] # f[j]}

\* get_top_n_symbols_by_volume, lines 115-127: the lists it can return for
\* these tickers. candidate_bases is a set, so symbols of equal volume come
\* in any order (sorted() is stable).
get_top_n_symbols_by_volume(tickers, top_n) ==
    LET dynamic_candidates == {base \in DOMAIN tickers : tickers[base] > 0}
        sorted_tickers ==
            {f \in Perms(dynamic_candidates) :
                \A i, j \in DOMAIN f : i < j => tickers[f[i]] >= tickers[f[j]]}
    IN {[i \in 1..Min(top_n, Len(f)) |-> Sym(f[i])] : f \in sorted_tickers}

\* What the provider hands back: a list for the tickers, or [] once every
\* retry has failed (lines 129-136).
ProviderLists(fetched, tickers, top_n) ==
    IF fetched THEN get_top_n_symbols_by_volume(tickers, top_n) ELSE {<<>>}

\* signal_scanner.py line 44
static_symbols_list(config) ==
    [i \in 1..Len(config.static_symbols) |-> Sym(config.static_symbols[i])]

\* Mutant: the statics appended without the membership test of line 47.
final_list_NoMembershipTest(dynamic_symbols_list, statics) ==
    dynamic_symbols_list \o statics

\* Lines 45-47: for s in static_symbols_list: if s not in final_list: append
RECURSIVE final_list(_, _)
final_list(dynamic_symbols_list, statics) ==
    IF statics = <<>> THEN dynamic_symbols_list
    ELSE final_list(IF Head(statics) \in Range(dynamic_symbols_list)
                    THEN dynamic_symbols_list
                    ELSE Append(dynamic_symbols_list, Head(statics)),
                    Tail(statics))

\* A periodic_reports entry of config.json.
ReportConf == [top_n_by_volume |-> Cardinality(CacheBases)]

\* periodic_reporter.py line 30
fetch_n(config, report_conf) == Max(config.top_n_for_signals, report_conf.top_n_by_volume)

-----------------------------------------------------------------------------
(* The cache refreshed one call at a time (SpecCache) *)

NoSymbol == Sym("-")
NoTickers == [base \in CacheBases |-> 0]
CacheLast(op) ==
    [op |-> op, fetched |-> FALSE, tickers |-> NoTickers, dynamic_symbols_list |-> <<>>,
     symbol |-> NoSymbol, rank |-> 0]

InitCache ==
    /\ now = 0
    /\ alerted_states = <<>>
    /\ cooldown_file = <<>>
    /\ notification_queue = <<>>
    /\ running = TRUE
    /\ last = CacheLast("init")
    /\ cached_top_symbols = <<>>
    /\ thr = <<>>
    /\ recorded = <<>>
    /\ upd = <<>>
    /\ rdr = <<>>
    /\ call = <<>>

CacheUnused ==
    <<now, alerted_states, cooldown_file, notification_queue, running, thr, recorded,
      upd, rdr, call>>

\* _update_cache, lines 28-50.
update_cache ==
    /\ \E fetched \in BOOLEAN, tickers \in Tickers :
       \E dynamic_symbols_list \in
              ProviderLists(fetched, tickers, Config.top_n_for_signals) :
          /\ cached_top_symbols' =
                 final_list(dynamic_symbols_list, static_symbols_list(Config))
          /\ last' = [CacheLast("update_cache") EXCEPT
                         !.fetched = fetched,
                         !.tickers = IF fetched THEN tickers ELSE NoTickers,
                         !.dynamic_symbols_list = dynamic_symbols_list]
    /\ UNCHANGED CacheUnused

\* _update_cache_for_report, lines 24-51.
update_cache_for_report ==
    /\ \E fetched \in BOOLEAN, tickers \in Tickers :
       \E dynamic_symbols_list \in
              ProviderLists(fetched, tickers, fetch_n(Config, ReportConf)) :
          /\ cached_top_symbols' =
                 final_list(dynamic_symbols_list, static_symbols_list(Config))
          /\ last' = [CacheLast("update_cache_for_report") EXCEPT
                         !.fetched = fetched,
                         !.tickers = IF fetched THEN tickers ELSE NoTickers,
                         !.dynamic_symbols_list = dynamic_symbols_list]
    /\ UNCHANGED CacheUnused

\* _calculate_dynamic_value, lines 19-22: the rank looked up for a symbol.
rank_lookup ==
    /\ \E base \in CacheBases :
          last' = [CacheLast("index") EXCEPT
                      !.symbol = Sym(base),
                      !.rank = RankOf(cached_top_symbols, Sym(base))]
    /\ UNCHANGED cached_top_symbols
    /\ UNCHANGED CacheUnused

NextCache ==
    \/ update_cache
    \/ update_cache_for_report
    \/ rank_lookup

SpecCache == InitCache /\ [][NextCache]_vars

-----------------------------------------------------------------------------
(* The cache refreshed while scan workers read it (SpecRank) *)

\* The scan job and a report job: the scheduler runs each job on a thread of
\* its pool, one instance of a job at a time.
Jobs == {"scan", "report"}
Readers == {"TechScan_0", "TechScan_1"}

\* Tickers the provider sees during the run.
RankTickers ==
    {[base \in CacheBases |-> IF base = "A" THEN 2 ELSE IF base = "C" THEN 1 ELSE 0],
     [base \in CacheBases |-> IF base = "C" THEN 1 ELSE 0]}

JobAt(pc, list) == [pc |-> pc, final_list |-> list]
ReaderAt(pc, symbol) == [pc |-> pc, symbol |-> symbol, observed |-> FALSE, seen |-> <<>>]

\* The process after main() has run the first scan cycle on its own: the
\* cache holds the list of that cycle. `recorded` collects every list a
\* refresh has built (lines 45-47), the one in the cache included.
InitRank ==
    /\ now = 0
    /\ alerted_states = <<>>
    /\ cooldown_file = <<>>
    /\ notification_queue = <<>>
    /\ running = TRUE
    /\ last = <<>>
    /\ cached_top_symbols = RankedList
    /\ thr = <<>>
    /\ recorded = {RankedList}
    /\ upd = [j \in Jobs |-> JobAt("idle", <<>>)]
    /\ rdr = [w \in Readers |-> ReaderAt("idle", NoSymbol)]
    /\ call = <<>>

RankUnused ==
    <<now, alerted_states, cooldown_file, notification_queue, running, last, thr, call>>

\* Lines 36-47 of _update_cache (28-47 of _update_cache_for_report): the
\* provider is asked and final_list is built. The scan job starts a cycle
\* only when the workers of its previous cycle have returned.
refresh_build(j) ==
    /\ upd[j].pc = "idle"
    /\ j = "scan" => \A w \in Readers : rdr[w].pc = "idle"
    /\ \E fetched \in BOOLEAN, tickers \in RankTickers :
       \E dynamic_symbols_list \in
              ProviderLists(fetched, tickers,
                            IF j = "scan" THEN Config.top_n_for_signals
                            ELSE fetch_n(Config, ReportConf)) :
          LET built == final_list(dynamic_symbols_list, static_symbols_list(Config)) IN
          /\ upd' = [upd EXCEPT ![j] = JobAt("built", built)]
          /\ recorded' = recorded \cup {built}
    /\ UNCHANGED <<cached_top_symbols, rdr>>
    /\ UNCHANGED RankUnused

\* cached_top_symbols.clear()
refresh_clear(j) ==
    /\ upd[j].pc = "built"
    /\ cached_top_symbols' = <<>>
    /\ upd' = [upd EXCEPT ![j].pc = "cleared"]
    /\ UNCHANGED <<recorded, rdr>>
    /\ UNCHANGED RankUnused

\* cached_top_symbols.extend(final_list); the scan job goes on to submit its
\* workers, the report job reads the list on its own thread.
refresh_extend(j) ==
    /\ upd[j].pc = "cleared"
    /\ cached_top_symbols' = cached_top_symbols \o upd[j].final_list
    /\ upd' = [upd EXCEPT ![j] = JobAt(IF j = "scan" THEN "submit" ELSE "idle", <<>>)]
    /\ UNCHANGED <<recorded, rdr>>
    /\ UNCHANGED RankUnused

\* run_signal_check_cycle, lines 172-181: nothing to scan, or one worker per
\* symbol of the list (the model follows as many of them as it has Readers).
scan_submit ==
    /\ upd["scan"].pc = "submit"
    /\ IF cached_top_symbols = <<>>
       THEN /\ upd' = [upd EXCEPT !["scan"].pc = "idle"]
            /\ UNCHANGED rdr
       ELSE /\ upd' = [upd EXCEPT !["scan"].pc = "scanning"]
            /\ \E symbols \in [Readers -> Range(cached_top_symbols) \cup {NoSymbol}] :
                  /\ \A v, w \in Readers :
                        (v # w /\ symbols[v] = symbols[w]) => symbols[v] = NoSymbol
                  /\ Cardinality({w \in Readers : symbols[w] # NoSymbol}) =
                         Min(Cardinality(Readers), Cardinality(Range(cached_top_symbols)))
                  /\ rdr' = [w \in Readers |->
                                IF symbols[w] = NoSymbol THEN ReaderAt("done", NoSymbol)
                                ELSE ReaderAt("index", symbols[w])]
    /\ UNCHANGED <<cached_top_symbols, recorded>>
    /\ UNCHANGED RankUnused

\* _calculate_dynamic_value line 20: cached_top_symbols.index(symbol); a
\* symbol that is not found gets the default and the call returns.
reader_index(w) ==
    /\ rdr[w].pc = "index"
    /\ rdr' = [rdr EXCEPT ![w].pc = IF RankOf(cached_top_symbols, rdr[w].symbol) = 0
                                    THEN "done" ELSE "len",
                          ![w].observed = TRUE,
                          ![w].seen = cached_top_symbols]
    /\ UNCHANGED <<cached_top_symbols, recorded, upd>>
    /\ UNCHANGED RankUnused

\* _calculate_dynamic_value line 38: len(cached_top_symbols)
reader_len(w) ==
    /\ rdr[w].pc = "len"
    /\ rdr' = [rdr EXCEPT ![w].pc = "done", ![w].seen = cached_top_symbols]
    /\ UNCHANGED <<cached_top_symbols, recorded, upd>>
    /\ UNCHANGED RankUnused

\* Lines 182-189: every worker has returned, the cycle ends.
scan_done ==
    /\ upd["scan"].pc = "scanning"
    /\ \A w \in Readers : rdr[w].pc = "done"
    /\ rdr' = [w \in Readers |-> ReaderAt("idle", NoSymbol)]
    /\ upd' = [upd EXCEPT !["scan"].pc = "idle"]
    /\ UNCHANGED <<cached_top_symbols, recorded>>
    /\ UNCHANGED RankUnused

NextRank ==
    \/ scan_submit
    \/ scan_done
    \/ \E j \in Jobs : refresh_build(j) \/ refresh_clear(j) \/ refresh_extend(j)
    \/ \E w \in Readers : reader_index(w) \/ reader_len(w)

SpecRank == InitRank /\ [][NextRank]_vars

\* C8: whatever a scan worker reads of cached_top_symbols while refreshes
\* run is a complete list, the one a refresh replaced or the one it built,
\* never an empty or partially built one.
C8_ReadersSeeCompleteLists ==
    \A w \in Readers : rdr[w].observed => rdr[w].seen \in recorded

-----------------------------------------------------------------------------
(* _calculate_dynamic_value with every method (SpecEngine) *)

EngineFallback == R(7, 1)
AbsentSymbol == Sym("Z")

\* Tier tables of the stepped method: in rank order or not, a tier whose
\* value lies outside [min, max], a tier without a value.
EngineTiers ==
    {<<>>,
     <<[up_to_rank |-> 1, has_val |-> TRUE, val |-> R(2, 1)],
       [up_to_rank |-> 2, has_val |-> TRUE, val |-> R(5, 2)]>>,
     <<[up_to_rank |-> 2, has_val |-> TRUE, val |-> R(9, 2)],
       [up_to_rank |-> 1, has_val |-> TRUE, val |-> R(2, 1)]>>,
     <<[up_to_rank |-> 1, has_val |-> FALSE, val |-> R(0, 1)]>>}

\* The dynamic_* sections of config.json: a multiplier family and a count
\* family, enabled or not, each method, the default written (non-zero or
\* zero) or left out.
EngineConfs ==
    {NoConf}
    \cup
    {[keys |-> {"enabled", "method", "min_multiplier", "max_multiplier"} \cup dk \cup sk,
      enabled |-> en, method |-> m, min_multiplier |-> R(3, 2), max_multiplier |-> R(3, 1),
      default_multiplier |-> dv, rank_step_size |-> 1, apply_to_rank_n |-> 2,
      tiers |-> tiers] :
         en \in BOOLEAN, m \in {"linear", "stepped", "linear_stepped"},
         dk \in {{}, {"default_multiplier"}}, dv \in {R(5, 1), R(0, 1)},
         sk \in {{}, {"rank_step_size", "apply_to_rank_n", "tiers"}},
         tiers \in EngineTiers}
    \cup
    {[keys |-> {"enabled", "method", "min_count", "max_count"} \cup dk \cup sk,
      enabled |-> TRUE, method |-> m, min_count |-> RInt(2), max_count |-> RInt(5),
      default_count |-> RInt(4), rank_step_size |-> 2, apply_to_rank_n |-> 2,
      tiers |-> <<>>] :
         m \in {"linear", "linear_stepped"},
         dk \in {{}, {"default_count"}}, sk \in {{}, {"rank_step_size"}}}

InitEngine ==
    /\ \E n \in 1..MaxRanks : cached_top_symbols = DynRankedList(n)
    /\ \E dyn_conf \in EngineConfs, top_n \in 1..MaxRanks :
          call = [op |-> "_calculate_dynamic_value", dyn_conf |-> dyn_conf,
                  top_n_for_signals |-> top_n, symbol |-> NoKey.symbol,
                  result |-> <<0, 0>>, done |-> FALSE]
    /\ DynIdle

\* One call of _calculate_dynamic_value, for a symbol of the ranked list or
\* for one that is not in it.
engine_call ==
    /\ ~call.done
    /\ \E symbol \in Range(cached_top_symbols) \cup {AbsentSymbol} :
          call' = [call EXCEPT
                      !.symbol = symbol,
                      !.result = calculate_dynamic_value(symbol, call.dyn_conf, EngineFallback,
                                                         call, cached_top_symbols),
                      !.done = TRUE]
    /\ UNCHANGED <<now, alerted_states, cooldown_file, notification_queue, running, last,
                   cached_top_symbols, thr, recorded, upd, rdr>>

NextEngine == engine_call

SpecEngine == InitEngine /\ [][NextEngine]_vars

\* What the call was asked: the family is enabled, the symbol's 1-based
\* position (0 when it is not in the list), the last rank the method applies
\* to, the configured default.
EngineEnabled == "enabled" \in call.dyn_conf.keys /\ call.dyn_conf.enabled
EnginePosition ==
    IF \E i \in 1..Len(cached_top_symbols) : cached_top_symbols[i] = call.symbol
    THEN CHOOSE i \in 1..Len(cached_top_symbols) : cached_top_symbols[i] = call.symbol
    ELSE 0
EngineLastRank ==
    IF call.dyn_conf.method = "stepped"
    THEN (IF "apply_to_rank_n" \in call.dyn_conf.keys THEN call.dyn_conf.apply_to_rank_n ELSE 100)
    ELSE Min(Len(cached_top_symbols), call.top_n_for_signals)
EngineHasDefault ==
    "default_multiplier" \in call.dyn_conf.keys \/ "default_count" \in call.dyn_conf.keys
EngineDefault ==
    IF "default_multiplier" \in call.dyn_conf.keys THEN call.dyn_conf.default_multiplier
    ELSE call.dyn_conf.default_count
EngineMin == IF "min_multiplier" \in call.dyn_conf.keys THEN call.dyn_conf.min_multiplier
             ELSE call.dyn_conf.min_count
EngineMax == IF "max_multiplier" \in call.dyn_conf.keys THEN call.dyn_conf.max_multiplier
             ELSE call.dyn_conf.max_count

\* C11 as stated: the fallback is returned whenever the family is disabled
\* or the symbol is not in the ranked list; a configured default is returned
\* only for a symbol that is in the list but ranked beyond the last rank the
\* method applies to.
C11_FallbackWhenDisabledOrAbsent ==
    call.done =>
        /\ (~EngineEnabled \/ EnginePosition = 0) => call.result = EngineFallback
        /\ (/\ EngineEnabled /\ EngineHasDefault
            /\ call.result = EngineDefault /\ call.result # EngineFallback)
              => (EnginePosition > 0 /\ EnginePosition > EngineLastRank)

\* C11, amended: the fallback is returned when the family is disabled; for a
\* symbol that is not in the list the configured default is returned when it
\* is written and non-zero, the fallback otherwise; for a symbol ranked
\* beyond the last rank the method applies to the configured default is
\* returned, the maximum when no default is written.
C11_DefaultForAbsentSymbol ==
    call.done =>
        /\ ~EngineEnabled => call.result = EngineFallback
        /\ (EngineEnabled /\ EnginePosition = 0) =>
              call.result = IF EngineHasDefault /\ EngineDefault[1] # 0
                            THEN EngineDefault ELSE EngineFallback
        /\ (EngineEnabled /\ EnginePosition > EngineLastRank) =>
              call.result = IF EngineHasDefault THEN EngineDefault ELSE EngineMax

\* An enabled family with a default, asked for a symbol that is not ranked.
C11_Witness ==
    /\ call.done /\ EngineEnabled /\ EnginePosition = 0
    /\ EngineHasDefault /\ EngineDefault[1] # 0
    /\ call.result = EngineDefault /\ call.result # EngineFallback

\* C12: for an enabled family and a symbol of the list within the ranks the
\* method applies to, the value returned lies in [min, max], for each of the
\* methods linear, stepped and linear_stepped.
C12_ValueWithinMinMax ==
    (call.done /\ EngineEnabled /\ EnginePosition > 0 /\ EnginePosition <= EngineLastRank)
        => (RLe(EngineMin, call.result) /\ RLe(call.result, EngineMax))

-----------------------------------------------------------------------------
(* One scan cycle: the worker tasks of run_signal_check_cycle (SpecScan) *)

\* The ranked list of the cycle, as a refresh left it.
ScanList == <<Sym("A"), Sym("B"), Sym("C")>>

\* market_settings.timeframes
ScanTimeframes == <<[num |-> 1, unit |-> "h"], [num |-> 4, unit |-> "h"]>>

\* STRATEGY_MAP crossed with the parameter sets of strategy_params: one set
\* for kdj_cross, two for level_breakout, the first of them disabled and the
\* second one excluding the 4h timeframe.
ScanEvaluators ==
    <<[name |-> "kdj_cross", index |-> 0, enabled |-> TRUE, exclude_timeframes |-> {}],
      [name |-> "level_breakout", index |-> 0, enabled |-> FALSE, exclude_timeframes |-> {}],
      [name |-> "level_breakout", index |-> 1, enabled |-> TRUE,
       exclude_timeframes |-> {[num |-> 4, unit |-> "h"]}]>>

\* What exchange.fetch_ohlcv can do: raise, or return that many bars.
OhlcvResults ==
    {[error |-> TRUE, bars |-> 0], [error |-> FALSE, bars |-> 0],
     [error |-> FALSE, bars |-> MinBars - 1], [error |-> FALSE, bars |-> MinBars]}

\* Mutant: a series shorter than 50 bars is handed on.
fetch_ohlcv_data_AcceptsShortSeries(ohlcv) ==
    IF ohlcv.error \/ ohlcv.bars = 0 THEN "None" ELSE "raw"

\* fetch_ohlcv_data: None, or the DataFrame of the bars as fetched ("raw").
fetch_ohlcv_data(ohlcv) ==
    IF ohlcv.error THEN "None"
    ELSE IF ohlcv.bars = 0 \/ ohlcv.bars < MinBars THEN "None"
    ELSE "raw"

\* Mutant: the evaluator works on the task's own DataFrame.
AfterEvaluator_SharedFrame(df, outcome) ==
    IF outcome = "changes_df" THEN "changed" ELSE df

\* Line 93 hands df.copy() to the evaluator: whatever the evaluator does to
\* its copy, the task's DataFrame stays as it was.
AfterEvaluator(df, outcome) == df

\* Lines 90-91: the parameter set is skipped.
Skipped(evaluator, timeframe) ==
    ~evaluator.enabled \/ timeframe \in evaluator.exclude_timeframes

\* A worker task: pc, the timeframe and the evaluator it is at, its
\* DataFrame; what it has done so far: fetches per timeframe, timeframes
\* without a series, evaluators invoked, the DataFrame the latest evaluator
\* received and what it made of it, whether an evaluator raised, the latest
\* fetch result.
TaskAt(symbol, pc) ==
    [symbol |-> symbol, pc |-> pc, tf |-> 1, ev |-> 1, df |-> "None",
     fetches |-> [i \in 1..Len(ScanTimeframes) |-> 0], no_series |-> {},
     invoked |-> {}, received |-> "-", copy |-> "-", raised |-> FALSE, ohlcv |-> [error |-> FALSE, bars |-> 0]]

\* The task moves on to the next timeframe, or returns.
NextTimeframe(task) ==
    IF task.tf < Len(ScanTimeframes)
    THEN [task EXCEPT !.pc = "fetch", !.tf = task.tf + 1, !.ev = 1, !.df = "None",
                      !.received = "-", !.copy = "-"]
    ELSE [task EXCEPT !.pc = "done", !.ev = 1, !.df = "None", !.received = "-", !.copy = "-"]

\* Mutant: the exception of an evaluator leaves the task.
AfterInvocation_RaiseEndsTask(task, outcome) ==
    IF outcome = "raises" THEN [task EXCEPT !.pc = "done", !.df = "None", !.received = "-", !.copy = "-"]
    ELSE IF task.ev < Len(ScanEvaluators) THEN [task EXCEPT !.ev = task.ev + 1]
    ELSE NextTimeframe(task)

\* Lines 92-96: the evaluator has returned or its exception was logged; the
\* loops go on.
AfterInvocation(task, outcome) ==
    IF task.ev < Len(ScanEvaluators) THEN [task EXCEPT !.ev = task.ev + 1]
    ELSE NextTimeframe(task)

ScanLast(phase) == [phase |-> phase]

InitScan ==
    /\ now = 0
    /\ alerted_states = EmptyStates
    /\ cooldown_file = NoFile
    /\ notification_queue = <<>>
    /\ running = TRUE
    /\ last = ScanLast("idle")
    /\ cached_top_symbols = ScanList
    /\ thr = <<>>
    /\ recorded = <<>>
    /\ upd = <<>>
    /\ rdr = <<>>
    /\ call = <<>>

ScanUnused == <<now, running, cached_top_symbols, recorded, upd, rdr, call>>

\* Lines 179-181: one task per element of the list is submitted.
scan_submit_tasks ==
    /\ last.phase = "idle"
    /\ thr' = [i \in 1..Len(cached_top_symbols) |-> TaskAt(cached_top_symbols[i], "queued")]
    /\ last' = ScanLast("scanning")
    /\ UNCHANGED <<alerted_states, cooldown_file, notification_queue>>
    /\ UNCHANGED ScanUnused

\* The pool gives a queued task a free worker thread.
task_start(i) ==
    /\ thr[i].pc = "queued"
    /\ Cardinality({j \in DOMAIN thr : thr[j].pc \in {"fetch", "evaluate"}}) < MaxWorkers
    /\ thr' = [thr EXCEPT ![i].pc = "fetch"]
    /\ UNCHANGED <<alerted_states, cooldown_file, notification_queue, last>>
    /\ UNCHANGED ScanUnused

\* Lines 72-77: the series of the timeframe is fetched; without a series the
\* loop continues with the next timeframe.
task_fetch(i) ==
    /\ thr[i].pc = "fetch"
    /\ \E ohlcv \in OhlcvResults :
          LET df == fetch_ohlcv_data(ohlcv)
              fetched == [thr[i] EXCEPT !.fetches[thr[i].tf] = @ + 1, !.ohlcv = ohlcv]
          IN thr' = [thr EXCEPT ![i] =
                        IF df = "None"
                        THEN NextTimeframe([fetched EXCEPT !.no_series = @ \cup {thr[i].tf}])
                        ELSE [fetched EXCEPT !.pc = "evaluate", !.ev = 1, !.df = df]]
    /\ UNCHANGED <<alerted_states, cooldown_file, notification_queue, last>>
    /\ UNCHANGED ScanUnused

\* Lines 79-96 for one parameter set: skipped, or the evaluator is invoked on
\* a copy of the series. The evaluator returns, changes its DataFrame,
\* raises, or reports a signal to _prepare_and_send_notification (in this
\* market only kdj_cross on the first symbol of the list does, and the
\* cooldown file is writable).
task_evaluate(i) ==
    /\ thr[i].pc = "evaluate"
    /\ LET task == thr[i]
           evaluator == ScanEvaluators[task.ev]
           timeframe == ScanTimeframes[task.tf]
           alert_key == AlertKey(task.symbol, timeframe, evaluator.name)
       IN IF Skipped(evaluator, timeframe)
          THEN /\ thr' = [thr EXCEPT ![i] = AfterInvocation(task, "skipped")]
               /\ UNCHANGED <<alerted_states, cooldown_file, notification_queue>>
          ELSE \E outcome \in {"returns", "changes_df", "raises", "signals"} :
                  LET ran == [task EXCEPT !.invoked = @ \cup {<<task.tf, task.ev>>},
                                          !.received = task.df,
                                          !.copy = IF outcome = "changes_df"
                                                   THEN "changed" ELSE task.df,
                                          !.raised = @ \/ outcome = "raises",
                                          !.df = AfterEvaluator(task.df, outcome)]
                  IN /\ thr' = [thr EXCEPT ![i] = AfterInvocation(ran, outcome)]
                     /\ IF outcome = "signals"
                        THEN /\ task.symbol = cached_top_symbols[1]
                             /\ evaluator.name = "kdj_cross"
                             /\ ~InCooldown(alerted_states, alert_key, now)
                             /\ Len(notification_queue) < MaxQueue
                             /\ \E write \in {"ok"} :
                                   LET inserted ==
                                           Inserted(alerted_states, alert_key,
                                                    calculate_cooldown_time(
                                                        now,
                                                        RInt(timeframe_to_minutes(timeframe)),
                                                        TRUE))
                                   IN /\ alerted_states' = SavedStates(inserted, now, write)
                                      /\ cooldown_file' =
                                             WriteFile(cooldown_file,
                                                       active_states(inserted, now), write)
                             /\ notification_queue' =
                                    Enqueued(notification_queue, task.symbol, alert_key)
                        ELSE UNCHANGED <<alerted_states, cooldown_file, notification_queue>>
    /\ UNCHANGED last
    /\ UNCHANGED ScanUnused

\* Lines 182-189: every future has completed, the executor is shut down and
\* the cycle returns.
scan_cycle_end ==
    /\ last.phase = "scanning"
    /\ \A i \in DOMAIN thr : thr[i].pc = "done"
    /\ last' = ScanLast("idle")
    /\ UNCHANGED <<alerted_states, cooldown_file, notification_queue, thr>>
    /\ UNCHANGED ScanUnused

NextScan ==
    \/ scan_submit_tasks
    \/ scan_cycle_end
    \/ consumer_get
    \/ \E i \in DOMAIN thr : task_start(i)
    \/ \E i \in DOMAIN thr : task_fetch(i)
    \/ \E i \in DOMAIN thr : task_evaluate(i)

SpecScan == InitScan /\ [][NextScan]_vars

\* The evaluators the loops of lines 79-96 invoke for a timeframe.
Invocable(t) ==
    {e \in 1..Len(ScanEvaluators) : ~Skipped(ScanEvaluators[e], ScanTimeframes[t])}

ExpectedInvoked(task) ==
    {<<t, e>> : t \in (1..Len(ScanTimeframes)) \ task.no_series,
                e \in 1..Len(ScanEvaluators)}
    \cap {te \in (1..Len(ScanTimeframes)) \X (1..Len(ScanEvaluators)) : te[2] \in Invocable(te[1])}

\* C13: an evaluator that raises stops nothing else: every task that has
\* returned, whether or not one of its evaluators raised and whatever happened
\* in the tasks of the other symbols, has fetched every timeframe once and
\* has invoked every enabled, not excluded evaluator of every timeframe that
\* had a series.
C13_RaisingEvaluatorIsIsolated ==
    \A i \in DOMAIN thr :
        thr[i].pc = "done" =>
            /\ \A t \in 1..Len(ScanTimeframes) : thr[i].fetches[t] = 1
            /\ thr[i].invoked = ExpectedInvoked(thr[i])

\* A task in which an evaluator raised has returned after invoking all the
\* evaluators of both timeframes, next to a returned task without a raise.
C13_Witness ==
    \E i, j \in DOMAIN thr :
        /\ thr[i].pc = "done" /\ thr[i].raised /\ thr[i].no_series = {}
        /\ thr[i].invoked = {<<1, 1>>, <<1, 3>>, <<2, 1>>}
        /\ thr[j].pc = "done" /\ ~thr[j].raised /\ thr[j].no_series = {}

\* The fetch of task i has just returned without a series.
FetchedNoSeries(i) ==
    /\ i \in DOMAIN thr'
    /\ thr[i].pc = "fetch"
    /\ thr'[i] # thr[i]
    /\ thr'[i].ohlcv.error \/ thr'[i].ohlcv.bars < MinBars

\* C14: a fetch that fails or brings fewer than 50 bars skips the unit: the
\* step invokes no evaluator, leaves queue, cooldown map and file alone, is
\* the only fetch of the unit in the cycle and takes the task to the next
\* timeframe (or to its end); no evaluator is ever invoked for such a unit and
\* a returned task has fetched every timeframe.
C14_NoSeriesSkipsTheUnit ==
    /\ [][\A i \in DOMAIN thr :
            FetchedNoSeries(i) =>
                /\ UNCHANGED <<notification_queue, alerted_states, cooldown_file>>
                /\ thr'[i].invoked = thr[i].invoked
                /\ thr'[i].no_series = thr[i].no_series \cup {thr[i].tf}
                /\ thr'[i].fetches[thr[i].tf] = 1
                /\ IF thr[i].tf < Len(ScanTimeframes)
                   THEN thr'[i].pc = "fetch" /\ thr'[i].tf = thr[i].tf + 1
                   ELSE thr'[i].pc = "done"]_vars
    /\ [](\A i \in DOMAIN thr :
            /\ \A t \in 1..Len(ScanTimeframes) : thr[i].fetches[t] <= 1
            /\ \A te \in thr[i].invoked : te[1] \notin thr[i].no_series
            /\ thr[i].pc = "done" => \A t \in 1..Len(ScanTimeframes) : thr[i].fetches[t] = 1)

\* The first timeframe of a symbol had no series (49 bars or an error) and
\* the task has gone on to run the evaluator of the second one.
C14_Witness ==
    \E i \in DOMAIN thr :
        /\ thr[i].pc = "done"
        /\ thr[i].no_series = {1}
        /\ thr[i].invoked = {<<2, 1>>}
        /\ thr[i].fetches = <<1, 1>>

-----------------------------------------------------------------------------
(* The notification queue between send_alert and notification_consumer     *)
(* (SpecQueue)                                                             *)

\* The threads that call send_alert: two scan workers and the report job.
Producers == Threads \cup {"Reporter"}

\* state.py: notification_queue = queue.Queue(), maxsize 0 is "no limit".
QueueMaxsize == 0

NoItem == [producer |-> "-", n |-> 0]

\* Queue.put blocks while a bounded queue is full.
put_blocks(queue) == QueueMaxsize > 0 /\ Len(queue) >= QueueMaxsize

\* Queue.put on a queue with room.
put(queue, item) == Append(queue, item)

\* Mutant: the consumer takes the newest item.
get_Newest(queue) ==
    [item |-> queue[Len(queue)], rest |-> SubSeq(queue, 1, Len(queue) - 1)]

\* Queue.get: the item that was put first, and what stays in the queue.
get(queue) == [item |-> Head(queue), rest |-> Tail(queue)]

\* What the processing of a dequeued item can end in: delivered, the webhook
\* answered with an error (or is not configured), or an exception was raised.
DeliveryOutcomes == {"sent", "webhook_error", "raises"}

\* Mutant: an exception ends the consumer thread.
ConsumerAfter_RaiseEndsThread(outcome) ==
    IF outcome = "raises" THEN "dead" ELSE "get"

\* Lines 77-109: every outcome is logged and the while loop goes round.
ConsumerAfter(outcome) == "get"

InitQueue ==
    /\ now = 0
    /\ alerted_states = <<>>
    /\ cooldown_file = <<>>
    /\ notification_queue = <<>>
    /\ running = TRUE
    /\ last = [outcome |-> "-"]
    /\ cached_top_symbols = <<>>
    /\ thr = [t \in Producers |-> [pc |-> "idle", sent |-> 0]]
    /\ recorded = [enqueued |-> <<>>, attempts |-> <<>>, failed |-> 0]
    /\ upd = <<>>
    /\ rdr = [pc |-> "get", item |-> NoItem]
    /\ call = <<>>

QueueUnused == <<now, alerted_states, cooldown_file, running, cached_top_symbols, upd, call>>

\* send_alert on a producer's thread: one put.
queue_send_alert(t) ==
    /\ thr[t].sent < MaxSends
    /\ IF put_blocks(notification_queue)
       THEN /\ thr' = [thr EXCEPT ![t].pc = "waiting"]
            /\ UNCHANGED <<notification_queue, recorded>>
       ELSE LET item == [producer |-> t, n |-> thr[t].sent + 1]
            IN /\ notification_queue' = put(notification_queue, item)
               /\ recorded' = [recorded EXCEPT !.enqueued = Append(@, item)]
               /\ thr' = [thr EXCEPT ![t] = [pc |-> "idle", sent |-> thr[t].sent + 1]]
    /\ UNCHANGED <<last, rdr>>
    /\ UNCHANGED QueueUnused

\* Line 79: the consumer blocks in get() until there is an item.
queue_consumer_get ==
    /\ rdr.pc = "get"
    /\ notification_queue # <<>>
    /\ rdr' = [pc |-> "deliver", item |-> get(notification_queue).item]
    /\ notification_queue' = get(notification_queue).rest
    /\ UNCHANGED <<last, thr, recorded>>
    /\ UNCHANGED QueueUnused

\* Lines 81-109: the item is processed once, whatever comes of it.
queue_consumer_deliver ==
    /\ rdr.pc = "deliver"
    /\ \E outcome \in DeliveryOutcomes :
          /\ recorded' = [recorded EXCEPT !.attempts = Append(@, rdr.item),
                                          !.failed = @ + (IF outcome = "sent" THEN 0 ELSE 1)]
          /\ last' = [outcome |-> outcome]
          /\ rdr' = [pc |-> ConsumerAfter(outcome), item |-> NoItem]
    /\ UNCHANGED <<notification_queue, thr>>
    /\ UNCHANGED QueueUnused

NextQueue ==
    \/ \E t \in Producers : queue_send_alert(t)
    \/ queue_consumer_get
    \/ queue_consumer_deliver

SpecQueue == InitQueue /\ [][NextQueue]_vars

\* The items the consumer has taken so far, in the order it took them.
Taken == recorded.attempts \o (IF rdr.pc = "deliver" THEN <<rdr.item>> ELSE <<>>)

\* C16: the consumer takes the items in the order of the puts (what it has
\* taken followed by what is still queued is the sequence of the puts), and no
\* producer is ever left waiting in send_alert.
C16_ConsumedInEnqueueOrder ==
    /\ Taken \o notification_queue = recorded.enqueued
    /\ \A t \in Producers : thr[t].pc # "waiting"

\* All three producers have enqueued, one of them while the consumer was busy
\* with a delivery and two items were queued; the consumer has taken four.
C16_Witness ==
    /\ \A t \in Producers : thr[t].sent = MaxSends
    /\ Len(recorded.attempts) = 3
    /\ rdr.pc = "deliver"
    /\ Len(notification_queue) = 2
    /\ \E i, j \in 1..Len(recorded.enqueued) :
          /\ i < j
          /\ recorded.enqueued[i].producer # recorded.enqueued[j].producer
          /\ recorded.enqueued[i].n > recorded.enqueued[j].n

\* C17: a failed delivery is final and harmless: no item is processed twice,
\* an item that was taken is never in the queue again, and the consumer is
\* always either waiting for an item or processing one.
C17_FailedDeliveryIsDropped ==
    /\ \A i, j \in 1..Len(Taken) : i # j => Taken[i] # Taken[j]
    /\ \A i \in 1..Len(Taken), j \in 1..Len(notification_queue) :
          Taken[i] # notification_queue[j]
    /\ rdr.pc \in {"get", "deliver"}
    /\ Len(recorded.attempts) <= Len(recorded.enqueued)

\* Two deliveries have failed and the consumer has then delivered the next
\* item; nothing is left in the queue.
C17_Witness ==
    /\ recorded.failed = 2
    /\ Len(recorded.attempts) = 3
    /\ last.outcome = "sent"
    /\ rdr.pc = "get"
    /\ notification_queue = <<>>
    /\ Len(recorded.enqueued) = 3

-----------------------------------------------------------------------------
(* SIGINT/SIGTERM while scan workers are in flight (SpecExit) *)

\* The thread on which Python runs signal handlers.
MainThread == "MainThread"

\* The cooldown map at the signal: empty, or the first worker's key cooling.
ExitStates ==
    {EmptyStates,
     Inserted(EmptyStates, ThreadSignalInfo("TechScan_0").alert_key, DayTicks)}

\* The workers of the cycle are about to check their candidates; the main
\* thread is in scheduler.start() (or in the first cycle of line 59).
InitExit ==
    /\ now = 0
    /\ alerted_states \in ExitStates
    /\ cooldown_file = JsonFile(alerted_states)
    /\ notification_queue = <<>>
    /\ running = TRUE
    /\ last = NoSend
    /\ cached_top_symbols = RankedList
    /\ thr = [t \in Threads \cup {MainThread} |->
                 IF t = MainThread THEN WorkerAt("scheduler") ELSE WorkerAt("ready")]
    /\ recorded = NoRecorded
    /\ upd = <<>>
    /\ rdr = <<>>
    /\ call = <<>>

\* main.py line 20: the signal arrives and handle_exit is entered; its first
\* statement of effect is save_alert_states() (line 22).
exit_signal ==
    /\ thr[MainThread].pc = "scheduler"
    /\ thr' = [thr EXCEPT ![MainThread].pc = "save"]
    /\ UNCHANGED <<now, alerted_states, cooldown_file, notification_queue, last, recorded>>
    /\ UNCHANGED ConcUnused

\* state.py lines 41-42 on a writable disk: the file holds the states the
\* saving thread collected at line 38.
exit_save_write(t) ==
    /\ thr[t].pc = "write"
    /\ cooldown_file' = WriteFile(cooldown_file, thr[t].active_states, "ok")
    /\ thr' = [thr EXCEPT ![t] = WorkerAt("done")]
    /\ UNCHANGED <<now, alerted_states, notification_queue, last, recorded>>
    /\ UNCHANGED ConcUnused

\* main.py lines 24 and 107-110: sys.exit(0) unwinds the main thread; the
\* interpreter joins the worker threads of the pools before the process
\* ends, so the workers in flight run to their end.
process_exit ==
    /\ running
    /\ \A t \in DOMAIN thr : thr[t].pc = "done"
    /\ running' = FALSE
    /\ UNCHANGED <<now, alerted_states, cooldown_file, notification_queue, last,
                   cached_top_symbols, thr, recorded, upd, rdr, call>>

NextExit ==
    \/ exit_signal
    \/ process_exit
    \/ consumer_get
    \/ \E t \in Threads :
          \/ gate_get(t)
          \/ gate_compare(t)
          \/ thread_send_alert(t)
          \/ thread_insert(t)
    \/ \E t \in Threads \cup {MainThread} :
          \/ save_begin(t)
          \/ save_iterate(t)
          \/ save_clear(t)
          \/ save_update(t)
          \/ exit_save_write(t)

SpecExit == InitExit /\ [][NextExit]_vars

\* C18: when the process has exited after the signal, the cooldown file
\* contains every entry that a worker in flight created.
C18_WorkerEntriesPersistedAtExit ==
    ~running =>
        \A k \in Keys : recorded[k] # 0 =>
            /\ cooldown_file.kind = "json"
            /\ k \in DOMAIN cooldown_file.data

-----------------------------------------------------------------------------
(* app/analysis/levels.py: _merge_close_levels (SpecZones) *)

Abs(x) == IF x < 0 THEN 0 - x ELSE x

\* A zone dictionary, as far as _merge_close_levels reads it.
Zones == [level : 0..MaxLevel, strength : 1..MaxStrength]

ZoneLists == UNION {[1..n -> Zones] : n \in 0..MaxZones}

\* min_separation: ATR times a multiplier, any number.
Separations == 0..MaxLevel

\* sorted(..., key=lambda x: x[field], reverse=True): stable, so of two
\* zones with equal keys the one that came first stays first.
InsertDescending(sorted_zones, zone, field) ==
    LET n == Cardinality({i \in 1..Len(sorted_zones) : sorted_zones[i][field] >= zone[field]})
    IN SubSeq(sorted_zones, 1, n) \o <<zone>> \o SubSeq(sorted_zones, n + 1, Len(sorted_zones))

RECURSIVE SortedDescending(_, _)
SortedDescending(zones, field) ==
    IF zones = <<>> THEN <<>>
    ELSE InsertDescending(SortedDescending(SubSeq(zones, 1, Len(zones) - 1), field),
                          zones[Len(zones)], field)

\* Mutant: the zones are taken in the order of the input.
ByStrength_InputOrder(zones) == zones

\* Line 36: the strongest zones first.
ByStrength(zones) == SortedDescending(zones, "strength")

\* Mutant: a zone is compared with the latest kept zone only.
is_too_close_LatestOnly(zone, final_zones, min_separation) ==
    /\ final_zones # <<>>
    /\ Abs(zone.level - final_zones[Len(final_zones)].level) < min_separation

\* Lines 41-45: some kept zone is nearer than min_separation.
is_too_close(zone, final_zones, min_separation) ==
    \E i \in 1..Len(final_zones) : Abs(zone.level - final_zones[i].level) < min_separation

\* Lines 38-48: the loop over sorted_zones from position i on.
RECURSIVE FinalZones(_, _, _, _)
FinalZones(sorted_zones, i, final_zones, min_separation) ==
    IF i > Len(sorted_zones) THEN final_zones
    ELSE FinalZones(sorted_zones, i + 1,
                    IF is_too_close(sorted_zones[i], final_zones, min_separation)
                    THEN final_zones
                    ELSE Append(final_zones, sorted_zones[i]),
                    min_separation)

\* _merge_close_levels(zones, min_separation)
merge_close_levels(zones, min_separation) ==
    IF zones = <<>> THEN <<>>
    ELSE SortedDescending(FinalZones(ByStrength(zones), 1, <<>>, min_separation), "level")

InitZones ==
    /\ now = 0
    /\ alerted_states = <<>>
    /\ cooldown_file = <<>>
    /\ notification_queue = <<>>
    /\ running = TRUE
    /\ last = <<>>
    /\ cached_top_symbols = <<>>
    /\ thr = <<>>
    /\ recorded = <<>>
    /\ upd = <<>>
    /\ rdr = <<>>
    /\ call \in [op : {"_merge_close_levels"}, zones : ZoneLists,
                 min_separation : Separations, result : {<<>>}, done : {FALSE}]

merge_call ==
    /\ ~call.done
    /\ call' = [call EXCEPT !.result = merge_close_levels(call.zones, call.min_separation),
                            !.done = TRUE]
    /\ UNCHANGED <<now, alerted_states, cooldown_file, notification_queue, running, last,
                   cached_top_symbols, thr, recorded, upd, rdr>>

NextZones == merge_call

SpecZones == InitZones /\ [][NextZones]_vars

Within(a, b, min_separation) == Abs(a.level - b.level) < min_separation

\* The positions of the input that the result retains: a zone of the input is
\* retained when the result holds it.
Retained(zone) == \E i \in 1..Len(call.result) : call.result[i] = zone

\* C19: no two zones of the result are nearer to each other than the
\* separation distance, and every zone of the result is a zone of the input.
C19_ResultSeparatedAndFromInput ==
    call.done =>
        /\ \A i, j \in 1..Len(call.result) :
              i # j => ~Within(call.result[i], call.result[j], call.min_separation)
        /\ \A i \in 1..Len(call.result) :
              \E j \in 1..Len(call.zones) : call.zones[j] = call.result[i]

\* Three zones, two of them nearer than the separation: two are returned.
C19_Witness ==
    /\ call.done
    /\ Len(call.zones) = 3
    /\ Len(call.result) = 2
    /\ call.min_separation > 0
    /\ \E i, j \in 1..3 :
          i # j /\ call.zones[i] # call.zones[j]
          /\ Within(call.zones[i], call.zones[j], call.min_separation)

\* C20 as stated: of two input zones within the separation of each other, the
\* weaker is never retained while the stronger is dropped.
C20_StrongerOfClosePairRetained ==
    call.done =>
        \A i, j \in 1..Len(call.zones) :
            (/\ Within(call.zones[i], call.zones[j], call.min_separation)
             /\ call.zones[i].strength > call.zones[j].strength)
            => ~(Retained(call.zones[j]) /\ ~Retained(call.zones[i]))

\* C20 as the code has it: a zone is dropped only when a retained zone of at
\* least its strength lies within the separation, and of two zones within
\* the separation at most one is retained.
C20_DroppedOnlyForStrongerRetained ==
    call.done =>
        /\ \A i \in 1..Len(call.zones) :
              ~Retained(call.zones[i]) =>
                  \E k \in 1..Len(call.result) :
                      /\ Within(call.zones[i], call.result[k], call.min_separation)
                      /\ call.result[k].strength >= call.zones[i].strength
        /\ \A i, j \in 1..Len(call.zones) :
              (call.zones[i] # call.zones[j]
               /\ Within(call.zones[i], call.zones[j], call.min_separation))
              => ~(Retained(call.zones[i]) /\ Retained(call.zones[j]))

\* The weaker zone of a close pair is retained and the stronger one dropped,
\* because a third zone, as strong as the stronger and retained, is near it.
C20_Witness ==
    /\ call.done
    /\ \E i, j \in 1..Len(call.zones) :
          /\ Within(call.zones[i], call.zones[j], call.min_separation)
          /\ call.zones[i].strength > call.zones[j].strength
          /\ Retained(call.zones[j])
          /\ ~Retained(call.zones[i])

-----------------------------------------------------------------------------
(* app/analysis/order_blocks.py: the minimum thickness of an order block   *)
(* (SpecBlocks)                                                            *)

\* Prices and ATR values are binary floating-point numbers. The model keeps
\* the rounding and shortens the significand: a number is an integer count
\* of the smallest unit in play, and every addition and subtraction rounds
\* its exact result to MantissaBits significant bits, ties to even.
RECURSIVE Ulp(_, _)
Ulp(n, u) == IF Abs(n) < (2 ^ MantissaBits) * u THEN u ELSE Ulp(n, 2 * u)

RoundedTo(n, u) ==
    LET q == n \div u
        r == n % u
    IN IF 2 * r < u THEN q * u
       ELSE IF 2 * r > u THEN (q + 1) * u
       ELSE IF q % 2 = 0 THEN q * u ELSE (q + 1) * u

fl(n) == RoundedTo(n, Ulp(n, 1))

\* Halving a float is exact; the prices of the model are multiples of four
\* units so that two halvings stay on the grid.
Prices == {n \in 0..MaxPrice : n % 4 = 0 /\ fl(n) = n}

\* pd.isna(atr_at_swing): the first bars of a series have no ATR.
NaN == 0 - 1

MIN_THICKNESS_ATR_MULT_INVERSE == 2

\* Mutant: the zone is never widened.
expand_zone_if_needed_AsIs(top, bottom, atr_value) == <<top, bottom>>

\* Lines 41-50.
expand_zone_if_needed(top, bottom, atr_value) ==
    LET height == fl(top - bottom)
        min_height == atr_value \div MIN_THICKNESS_ATR_MULT_INVERSE
        center == fl(top + bottom) \div 2
        half_min == min_height \div 2
    IN IF height < min_height
       THEN <<fl(center + half_min), fl(center - half_min)>>
       ELSE <<top, bottom>>

\* What lines 53-76 (92-115) find for one swing point: its ATR, and the
\* candle of the block if the structure was broken after the swing and the
\* range holds a candle of the opposite colour.
NoCandle == [high |-> 0 - 1, low |-> 0 - 1]
Candles == {[high |-> h, low |-> l] : h \in Prices, l \in Prices} \cap
           {c \in [high : Prices, low : Prices] : c.high > c.low}
SwingAtrs == {NaN, 0, 8, 16}
Swings == [atr : SwingAtrs, candle : Candles \cup {NoCandle}]

\* The swings of a series, oldest first: any swing, followed by up to
\* MaxSwings - 1 later ones, without an ATR, without a candle, or with both.
LateSwings ==
    {[atr |-> NaN, candle |-> NoCandle], [atr |-> 0, candle |-> NoCandle],
     [atr |-> NaN, candle |-> [high |-> 32, low |-> 28]],
     [atr |-> 8, candle |-> NoCandle],
     [atr |-> 16, candle |-> [high |-> 32, low |-> 28]]}
SwingLists ==
    {<<>>} \cup
    {<<s>> \o later : s \in Swings,
                      later \in UNION {[1..n -> LateSwings] : n \in 0..(MaxSwings - 1)}}

NoBlock == [top |-> 0 - 1, bottom |-> 0 - 1, atr |-> 0, raw |-> NoCandle, type |-> "None"]

\* Lines 53-89 and 92-128: the swings from the latest backwards; the first
\* one with an ATR and a candle gives the block. `atr` and `raw` are not part
\* of the returned dictionary: they keep what the block was made from.
RECURSIVE find_latest_order_block(_, _, _)
find_latest_order_block(swings, i, type) ==
    IF i < 1 THEN NoBlock
    ELSE IF swings[i].atr = NaN \/ swings[i].atr = 0
         THEN find_latest_order_block(swings, i - 1, type)
    ELSE IF swings[i].candle = NoCandle
         THEN find_latest_order_block(swings, i - 1, type)
    ELSE LET final == expand_zone_if_needed(swings[i].candle.high, swings[i].candle.low,
                                            swings[i].atr)
         IN [top |-> final[1], bottom |-> final[2], atr |-> swings[i].atr,
             raw |-> swings[i].candle, type |-> type]

InitBlocks ==
    /\ now = 0
    /\ alerted_states = <<>>
    /\ cooldown_file = <<>>
    /\ notification_queue = <<>>
    /\ running = TRUE
    /\ last = <<>>
    /\ cached_top_symbols = <<>>
    /\ thr = <<>>
    /\ recorded = <<>>
    /\ upd = <<>>
    /\ rdr = <<>>
    /\ call \in [op : {"find_latest_order_blocks"}, swing_lows : SwingLists,
                 bearish : {NoBlock}, bullish : {NoBlock}, done : {FALSE}]

\* find_latest_order_blocks on a series whose swing highs lead to the same
\* candidates as its swing lows (the two loops are the same code).
order_blocks_call ==
    /\ ~call.done
    /\ call' = [call EXCEPT
                   !.bearish = find_latest_order_block(call.swing_lows, Len(call.swing_lows),
                                                       "bearish"),
                   !.bullish = find_latest_order_block(call.swing_lows, Len(call.swing_lows),
                                                       "bullish"),
                   !.done = TRUE]
    /\ UNCHANGED <<now, alerted_states, cooldown_file, notification_queue, running, last,
                   cached_top_symbols, thr, recorded, upd, rdr>>

NextBlocks == order_blocks_call

SpecBlocks == InitBlocks /\ [][NextBlocks]_vars

Returned == {b \in {call.bearish, call.bullish} : b # NoBlock}
MinHeight(b) == b.atr \div MIN_THICKNESS_ATR_MULT_INVERSE
Thin(b) == b.raw.high - b.raw.low < MinHeight(b)

\* C21 as stated: every returned block is at least 0.5 x ATR thick; a thin
\* candle comes back with its midpoint and exactly the minimum height, a
\* thick one with its own high and low.
C21_BlockAtLeastMinimumThick ==
    call.done =>
        \A b \in Returned :
            /\ b.top - b.bottom >= MinHeight(b)
            /\ Thin(b) => /\ b.top - b.bottom = MinHeight(b)
                          /\ b.top + b.bottom = b.raw.high + b.raw.low
            /\ ~Thin(b) => b.top = b.raw.high /\ b.bottom = b.raw.low

\* C21 with the rounding of the floating-point operations: the height of a
\* returned block is at least the minimum less one unit in the last place of
\* its top; a thin candle comes back with the minimum height and its
\* midpoint up to that rounding, a thick one with its own high and low.
C21_BlockThickWithinRounding ==
    call.done =>
        \A b \in Returned :
            /\ b.top - b.bottom >= MinHeight(b) - Ulp(b.top, 1)
            /\ Thin(b) =>
                  /\ Abs((b.top - b.bottom) - MinHeight(b)) <= Ulp(b.top, 1)
                  /\ Abs((b.top + b.bottom) - (b.raw.high + b.raw.low))
                        <= 2 * Ulp(b.raw.high + b.raw.low, 1)
            /\ ~Thin(b) => b.top = b.raw.high /\ b.bottom = b.raw.low

\* A thin candle after a swing with an ATR, found behind a later swing that
\* has none, was widened and the rounding shows in the result.
C21_Witness ==
    /\ call.done
    /\ Len(call.swing_lows) = 2
    /\ call.swing_lows[2].atr = NaN
    /\ call.bearish # NoBlock
    /\ Thin(call.bearish)
    /\ call.bearish.top - call.bearish.bottom > call.bearish.raw.high - call.bearish.raw.low
    /\ call.bearish.top + call.bearish.bottom # call.bearish.raw.high + call.bearish.raw.low

-----------------------------------------------------------------------------
(* An evaluator run twice on the same series: check_volatility_breakout    *)
(* (SpecEval)                                                              *)

\* strategy_params.dynamic_atr_multipliers: the ATR multiplier grows with
\* the rank.
EvalAtrConf ==
    [keys |-> {"enabled", "method", "min_multiplier", "max_multiplier"},
     enabled |-> TRUE, method |-> "linear",
     min_multiplier |-> R(2, 1), max_multiplier |-> R(3, 1)]

\* vol_params of config.json.
EvalParams ==
    {[atr_multiplier |-> R(5, 2), volume_confirm |-> vc, volume_multiplier |-> R(2, 1)] :
        vc \in BOOLEAN}

\* What lines 194-201 read from the series: the range of the current candle
\* and the ATR of the previous one (0 when it cannot be used).
EvalFeatures == [current_volatility : {1, 5, 7}, reference_atr : {0, 2}]

NoSignal == [alert_key |-> NoKey]

get_dynamic_atr_multiplier(symbol, config, fallback_multiplier, cached) ==
    calculate_dynamic_value(symbol, EvalAtrConf, fallback_multiplier, config, cached)

\* Mutant: the evaluator asks for volume confirmation only while its key is
\* not in the cooldown map.
check_volatility_breakout_ReadsCooldownMap(symbol, timeframe, config, features, vol_params, cached) ==
    IF features.reference_atr = 0 THEN NoSignal
    ELSE IF ~RLt(RMul(RInt(features.reference_atr),
                      get_dynamic_atr_multiplier(symbol, config, vol_params.atr_multiplier,
                                                 cached)),
                 RInt(features.current_volatility))
    THEN NoSignal
    ELSE [alert_key |-> AlertKey(symbol, timeframe, "VOLATILITY"),
          volume_must_confirm |->
              vol_params.volume_confirm
              /\ AlertKey(symbol, timeframe, "VOLATILITY") \notin DOMAIN alerted_states,
          exempt_static_on_volume |-> FALSE,
          fallback_multiplier |-> vol_params.volume_multiplier,
          title_template |-> "Volatility Breakout",
          template_data |->
              [current_volatility |-> features.current_volatility,
               reference_atr |-> features.reference_atr,
               dynamic_atr_multiplier |->
                   get_dynamic_atr_multiplier(symbol, config, vol_params.atr_multiplier, cached)],
          cooldown_logic |-> "", cooldown_mult |-> R(1, 1)]

\* check_volatility_breakout, lines 191-220: the signal_info it hands to
\* _prepare_and_send_notification, or nothing.
check_volatility_breakout(symbol, timeframe, config, features, vol_params, cached) ==
    IF features.reference_atr = 0 THEN NoSignal
    ELSE IF ~RLt(RMul(RInt(features.reference_atr),
                      get_dynamic_atr_multiplier(symbol, config, vol_params.atr_multiplier,
                                                 cached)),
                 RInt(features.current_volatility))
    THEN NoSignal
    ELSE [alert_key |-> AlertKey(symbol, timeframe, "VOLATILITY"),
          volume_must_confirm |-> vol_params.volume_confirm,
          exempt_static_on_volume |-> FALSE,
          fallback_multiplier |-> vol_params.volume_multiplier,
          title_template |-> "Volatility Breakout",
          template_data |->
              [current_volatility |-> features.current_volatility,
               reference_atr |-> features.reference_atr,
               dynamic_atr_multiplier |->
                   get_dynamic_atr_multiplier(symbol, config, vol_params.atr_multiplier, cached)],
          cooldown_logic |-> "", cooldown_mult |-> R(1, 1)]

\* Lines 68-80 of _prepare_and_send_notification: title and message carry
\* the volume label and the volume text computed at the instant of the run.
Notification(signal_info, vol_label) ==
    [title |-> [template |-> signal_info.title_template, vol_label |-> vol_label],
     message |-> [data |-> signal_info.template_data, vol_text |-> vol_label]]

NoNotification ==
    [title |-> [template |-> "-", vol_label |-> "-"],
     message |-> [data |-> [current_volatility |-> 0, reference_atr |-> 0,
                            dynamic_atr_multiplier |-> R(0, 1)],
                  vol_text |-> "-"]]

InitEval ==
    /\ now = 0
    /\ alerted_states = EmptyStates
    /\ cooldown_file = NoFile
    /\ notification_queue = <<>>
    /\ running = TRUE
    /\ last = NoSend
    /\ cached_top_symbols = RankedList
    /\ thr = <<>>
    /\ recorded = <<>>
    /\ upd = <<>>
    /\ rdr = <<>>
    /\ call \in [symbol : Symbols, timeframe : Timeframes,
                 df : {DataFrame(0, 1, <<4, 4, 1>>)},
                 features : EvalFeatures, vol_params : EvalParams]

\* _update_cache between two runs: the two symbols have changed places.
eval_refresh ==
    /\ recorded # <<>>
    /\ cached_top_symbols' = <<cached_top_symbols[2], cached_top_symbols[1]>>
    /\ UNCHANGED <<now, alerted_states, cooldown_file, notification_queue, running, last,
                   thr, recorded, upd, rdr, call>>

\* One run of the evaluator on the series of `call`, from line 190 to its
\* return: the signal_info is built and, if there is one,
\* _prepare_and_send_notification runs with it.
evaluator_run ==
    /\ Len(recorded) < 2
    /\ LET signal_info ==
               check_volatility_breakout(call.symbol, call.timeframe, Config, call.features,
                                         call.vol_params, cached_top_symbols)
           out == IF signal_info = NoSignal THEN <<"none", "-">>
                  ELSE GateOutcome(Config, call.symbol, call.timeframe, call.df, signal_info,
                                   cached_top_symbols, alerted_states, now, now)
           run == [signal_info |-> signal_info, cached |-> cached_top_symbols, at |-> now,
                   outcome |-> out[1],
                   expiry |-> IF out[1] = "sent"
                              THEN CooldownExpiry(signal_info,
                                                  timeframe_to_minutes(call.timeframe), now)
                              ELSE 0,
                   sent |-> IF out[1] = "sent" THEN Notification(signal_info, out[2])
                            ELSE NoNotification]
       IN /\ recorded' = Append(recorded, run)
          /\ IF out[1] = "sent"
             THEN LET expiry == CooldownExpiry(signal_info,
                                               timeframe_to_minutes(call.timeframe), now)
                      inserted == Inserted(alerted_states, signal_info.alert_key, expiry)
                  IN /\ Len(notification_queue) < MaxQueue
                     /\ notification_queue' =
                            Enqueued(notification_queue, call.symbol, signal_info.alert_key)
                     /\ alerted_states' = SavedStates(inserted, now, "ok")
                     /\ cooldown_file' =
                            WriteFile(cooldown_file, active_states(inserted, now), "ok")
             ELSE UNCHANGED <<alerted_states, cooldown_file, notification_queue>>
    /\ UNCHANGED <<now, running, last, cached_top_symbols, thr, upd, rdr, call>>

NextEval ==
    \/ TickConc
    \/ consumer_get
    \/ eval_refresh
    \/ evaluator_run

SpecEval == InitEval /\ [][NextEval]_vars

TwoRunsSameSnapshot ==
    Len(recorded) = 2 /\ recorded[1].cached = recorded[2].cached

-----------------------------------------------------------------------------
(* The broad funding-rate scan: check_high_funding_rate without a series   *)
(* (SpecFunding)                                                           *)

\* Funding rates in units of 0.01 percent; the threshold 0.01 is 100 units.
FundingRates == {0 - 150, 0 - 100, 0, 99, 100, 150}

\* fetch_funding_rate: None on an exchange error, a dictionary without a
\* fundingRate, or a dictionary with one.
FundingData ==
    {[none |-> TRUE, has_rate |-> FALSE, fundingRate |-> 0],
     [none |-> FALSE, has_rate |-> FALSE, fundingRate |-> 0]}
    \cup {[none |-> FALSE, has_rate |-> TRUE, fundingRate |-> r] : r \in FundingRates}

\* strategy_params.high_funding_rate
FundConfs ==
    {[keys |-> {"enabled", "threshold"}, enabled |-> TRUE, threshold |-> 100,
      cooldown_mult |-> R(4, 1)],
     [keys |-> {"enabled", "threshold", "cooldown_mult"}, enabled |-> TRUE, threshold |-> 100,
      cooldown_mult |-> R(1, 1)],
     [keys |-> {"enabled"}, enabled |-> TRUE, threshold |-> 100, cooldown_mult |-> R(4, 1)]}

FundingTimeframe == [num |-> 4, unit |-> "h"]

\* f"{symbol}_FUNDING_RATE_{config_index}"
FundingKey(symbol) == AlertKey(symbol, NoKey.timeframe, "FUNDING_RATE")

\* Lines 646-689: the signal_info of a rate at or beyond the threshold.
FundingSignalInfo(symbol, fund_params) ==
    [alert_key |-> FundingKey(symbol),
     volume_must_confirm |-> FALSE, exempt_static_on_volume |-> FALSE,
     fallback_multiplier |-> R(3, 2),
     cooldown_logic |-> "",
     cooldown_mult |-> Get(fund_params, "cooldown_mult", R(4, 1))]

FundingLast(symbol, funding_data, cooling, outcome) ==
    [symbol |-> symbol, funding_data |-> funding_data, cooling |-> cooling,
     outcome |-> outcome, queued |-> Len(notification_queue)]

InitFunding ==
    /\ now = 0
    /\ alerted_states \in {EmptyStates, Inserted(EmptyStates, FundingKey(Sym("A")), 2)}
    /\ cooldown_file = JsonFile(alerted_states)
    /\ notification_queue = <<>>
    /\ running = TRUE
    /\ last = FundingLast(NoKey.symbol, [none |-> TRUE, has_rate |-> FALSE, fundingRate |-> 0],
                          FALSE, "-")
    /\ cached_top_symbols = RankedList
    /\ thr = <<>>
    /\ recorded = <<>>
    /\ upd = <<>>
    /\ rdr = <<>>
    /\ call \in [fund_conf : FundConfs]

FundingTick ==
    /\ now < MaxTime
    /\ now' = now + 1
    /\ UNCHANGED <<alerted_states, cooldown_file, notification_queue, running, last,
                   cached_top_symbols, thr, recorded, upd, rdr, call>>

\* check_funding_task(sym), signal_scanner.py lines 129-136:
\* check_high_funding_rate(exchange, sym, '4h', config, None, fund_conf) from
\* its first line to its return. An exception raised on the way is logged by
\* line 692 and the call returns.
check_funding_task ==
    /\ \E sym \in Symbols, funding_data \in FundingData :
       LET fund_params == call.fund_conf
           threshold == Get(fund_params, "threshold", 100)
           signal_info == FundingSignalInfo(sym, fund_params)
           cooling == InCooldown(alerted_states, FundingKey(sym), now)
           df == NoneFrame
       IN IF funding_data.none \/ ~funding_data.has_rate
             \/ Abs(funding_data.fundingRate) < threshold
          THEN /\ last' = FundingLast(sym, funding_data, cooling, "none")
               /\ UNCHANGED <<alerted_states, cooldown_file, notification_queue>>
          ELSE LET out == GateOutcome(Config, sym, FundingTimeframe, df, signal_info,
                                      cached_top_symbols, alerted_states, now, now)
               IN IF out[1] # "sent"
                  THEN /\ last' = FundingLast(sym, funding_data, cooling, out[1])
                       /\ UNCHANGED <<alerted_states, cooldown_file, notification_queue>>
                  ELSE LET expiry == CooldownExpiry(signal_info,
                                                    timeframe_to_minutes(FundingTimeframe), now)
                           inserted == Inserted(alerted_states, FundingKey(sym), expiry)
                       IN /\ Len(notification_queue) < MaxQueue
                          /\ notification_queue' =
                                 Enqueued(notification_queue, sym, FundingKey(sym))
                          /\ alerted_states' = SavedStates(inserted, now, "ok")
                          /\ cooldown_file' =
                                 WriteFile(cooldown_file, active_states(inserted, now), "ok")
                          /\ last' = FundingLast(sym, funding_data, cooling, "sent")
    /\ UNCHANGED <<now, running, cached_top_symbols, thr, recorded, upd, rdr, call>>

NextFunding ==
    \/ FundingTick
    \/ check_funding_task

SpecFunding == InitFunding /\ [][NextFunding]_vars

\* C23: after the funding scan has checked a symbol whose rate is at or
\* beyond the threshold and whose key was not cooling, one notification for
\* the symbol has been enqueued and the key has a cooldown entry.
C23_HighFundingRateNotifies ==
    (/\ last.outcome # "-"
     /\ ~last.funding_data.none /\ last.funding_data.has_rate
     /\ Abs(last.funding_data.fundingRate) >= Get(call.fund_conf, "threshold", 100)
     /\ ~last.cooling)
    => /\ last.outcome = "sent"
       /\ Len(notification_queue) = last.queued + 1
       /\ FundingKey(last.symbol) \in DOMAIN alerted_states

-----------------------------------------------------------------------------
(* The run-length evaluator: check_consecutive_candles (SpecCandles)       *)

\* Longest series of the model; the last row is the bar that is forming.
MaxBars == 5

\* The open and close of a candle: rising, falling, close equal to open.
Bodies == {[open |-> 1, close |-> 2], [open |-> 2, close |-> 1], [open |-> 1, close |-> 1]}

BodySeries == UNION {[1..n -> Bodies] : n \in 2..MaxBars}

\* strategy_params.consecutive_candles.dynamic_count: the count grows with
\* the rank; or the engine is switched off and the caller's fallback counts.
CountConfs ==
    {[keys |-> {"enabled", "method", "min_count", "max_count"},
      enabled |-> TRUE, method |-> "linear", min_count |-> R(1, 1), max_count |-> R(2, 1)],
     [keys |-> {"enabled"}, enabled |-> FALSE, method |-> "linear",
      min_count |-> R(1, 1), max_count |-> R(2, 1)]}

\* consecutive_params of config.json
ConsecutiveParams == [keys |-> {"min_consecutive_candles"}, min_consecutive_candles |-> R(3, 1)]

get_dynamic_consecutive_candles(symbol, config, fallback_count, dyn_conf, cached) ==
    calculate_dynamic_value(symbol, dyn_conf, fallback_count, config, cached)

\* Lines 471-475
DirectionOf(candle) ==
    IF candle.close > candle.open THEN "up"
    ELSE IF candle.close < candle.open THEN "down" ELSE "none"

\* Mutant: a candle with close equal to open does not end the run.
RECURSIVE count_backwards_PastDoji(_, _, _)
count_backwards_PastDoji(df, start_index, direction) ==
    IF start_index < 1 THEN 0
    ELSE IF DirectionOf(df[start_index]) = direction
    THEN 1 + count_backwards_PastDoji(df, start_index - 1, direction)
    ELSE IF DirectionOf(df[start_index]) = "none"
    THEN count_backwards_PastDoji(df, start_index - 1, direction)
    ELSE 0

\* Lines 467-478; rows are numbered from 1 here, so start_index is the
\* Python index plus one.
RECURSIVE count_backwards(_, _, _)
count_backwards(df, start_index, direction) ==
    IF start_index < 1 THEN 0
    ELSE IF DirectionOf(df[start_index]) = direction
    THEN 1 + count_backwards(df, start_index - 1, direction)
    ELSE 0

Candidate(kind, count) == [kind |-> kind, count |-> count]

\* Lines 461-536: the candidates check_consecutive_candles hands to
\* _prepare_and_send_notification, in the order of the calls.
check_consecutive_candles(df, min_n_to_alert) ==
    LET n == Len(df) IN
    IF RLt(RInt(n), RAdd(min_n_to_alert, RInt(2))) \/ n < 3 THEN <<>>
    ELSE LET last_candle == df[n - 1]
             prev_candle == df[n - 2]
             is_last_up == DirectionOf(last_candle) = "up"
             is_last_down == DirectionOf(last_candle) = "down"
             is_prev_up == DirectionOf(prev_candle) = "up"
             is_prev_down == DirectionOf(prev_candle) = "down"
             prev_down_trend_count == count_backwards(df, n - 2, "down")
             prev_up_trend_count == count_backwards(df, n - 2, "up")
             reversal ==
                 IF is_last_up /\ is_prev_down
                 THEN IF RLe(min_n_to_alert, RInt(prev_down_trend_count))
                      THEN <<Candidate("REVERSAL_UP", prev_down_trend_count)>> ELSE <<>>
                 ELSE IF is_last_down /\ is_prev_up
                 THEN IF RLe(min_n_to_alert, RInt(prev_up_trend_count))
                      THEN <<Candidate("REVERSAL_DOWN", prev_up_trend_count)>> ELSE <<>>
                 ELSE <<>>
             current_trend_count ==
                 IF is_last_up THEN count_backwards(df, n - 1, "up")
                 ELSE IF is_last_down THEN count_backwards(df, n - 1, "down")
                 ELSE 0
             continuous ==
                 IF RLe(min_n_to_alert, RInt(current_trend_count))
                 THEN <<Candidate(IF is_last_up THEN "CONTINUOUS_UP" ELSE "CONTINUOUS_DOWN",
                                  current_trend_count)>>
                 ELSE <<>>
         IN reversal \o continuous

\* The signal_info of a candidate (lines 490-497, 503-510, 525-536).
CandleSignalInfo(symbol, timeframe, candidate, consecutive_params) ==
    [alert_key |-> AlertKey(symbol, timeframe, candidate.kind),
     volume_must_confirm |-> Get(consecutive_params, "volume_confirm", FALSE),
     exempt_static_on_volume |-> FALSE,
     fallback_multiplier |-> Get(consecutive_params, "volume_multiplier", R(3, 2)),
     cooldown_logic |-> "align_to_period_end", cooldown_mult |-> R(1, 1)]

\* _prepare_and_send_notification for the candidates one after the other;
\* st is [states, file, queue, outcomes].
RECURSIVE CandidatesSent(_, _, _, _, _, _)
CandidatesSent(candidates, i, st, symbol, timeframe, t) ==
    IF i > Len(candidates) THEN st
    ELSE LET signal_info == CandleSignalInfo(symbol, timeframe, candidates[i], ConsecutiveParams)
             out == GateOutcome(Config, symbol, timeframe, DataFrame(0, 1, <<4, 4, 1>>),
                                signal_info, cached_top_symbols, st.states, t, t)
             inserted == Inserted(st.states, signal_info.alert_key,
                                  CooldownExpiry(signal_info, timeframe_to_minutes(timeframe), t))
         IN CandidatesSent(candidates, i + 1,
                IF out[1] = "sent"
                THEN [states |-> SavedStates(inserted, t, "ok"),
                      file |-> WriteFile(st.file, active_states(inserted, t), "ok"),
                      queue |-> Enqueued(st.queue, symbol, signal_info.alert_key),
                      outcomes |-> Append(st.outcomes, out[1])]
                ELSE [st EXCEPT !.outcomes = Append(@, out[1])],
                symbol, timeframe, t)

InitCandles ==
    /\ now = 0
    /\ alerted_states = EmptyStates
    /\ cooldown_file = NoFile
    /\ notification_queue = <<>>
    /\ running = TRUE
    /\ last = [done |-> FALSE, min_n_to_alert |-> R(0, 1), candidates |-> <<>>,
               outcomes |-> <<>>]
    /\ cached_top_symbols = RankedList
    /\ thr = <<>>
    /\ recorded = <<>>
    /\ upd = <<>>
    /\ rdr = <<>>
    /\ call \in [symbol : Symbols, timeframe : Timeframes, df : BodySeries,
                 dyn_conf : CountConfs]

\* One call of check_consecutive_candles on the series of `call`, from line
\* 461 to its return.
candles_run ==
    /\ ~last.done
    /\ LET fallback_n == Get(ConsecutiveParams, "min_consecutive_candles", R(4, 1))
           min_n_to_alert ==
               get_dynamic_consecutive_candles(call.symbol, Config, fallback_n, call.dyn_conf,
                                               cached_top_symbols)
           candidates == check_consecutive_candles(call.df, min_n_to_alert)
           st == CandidatesSent(candidates, 1,
                                [states |-> alerted_states, file |-> cooldown_file,
                                 queue |-> notification_queue, outcomes |-> <<>>],
                                call.symbol, call.timeframe, now)
       IN /\ last' = [done |-> TRUE, min_n_to_alert |-> min_n_to_alert,
                      candidates |-> candidates, outcomes |-> st.outcomes]
          /\ alerted_states' = st.states
          /\ cooldown_file' = st.file
          /\ notification_queue' = st.queue
    /\ UNCHANGED <<now, running, cached_top_symbols, thr, recorded, upd, rdr, call>>

NextCandles ==
    \/ FundingTick
    \/ candles_run

SpecCandles == InitCandles /\ [][NextCandles]_vars

\* The closed candles of the series of `call`, oldest first.
ClosedCandles == SubSeq(call.df, 1, Len(call.df) - 1)

\* The candles i..j of `candles` all have direction d.
AllOf(candles, i, j, d) == \A k \in i..j : DirectionOf(candles[k]) = d

\* Length of the run of direction d that ends at candle j.
RunEndingAt(candles, j, d) ==
    IF j < 1 THEN 0
    ELSE Cardinality({m \in 1..j : AllOf(candles, j - m + 1, j, d)})

Opposite(d) == IF d = "up" THEN "down" ELSE "up"

ContinuationProduced ==
    \E i \in DOMAIN last.candidates :
        last.candidates[i].kind \in {"CONTINUOUS_UP", "CONTINUOUS_DOWN"}

TerminationProduced ==
    \E i \in DOMAIN last.candidates :
        last.candidates[i].kind \in {"REVERSAL_UP", "REVERSAL_DOWN"}

\* The run ending at the last closed candle has at least N candles.
ContinuationDue ==
    \E d \in {"up", "down"} :
        RLe(last.min_n_to_alert, RInt(RunEndingAt(ClosedCandles, Len(ClosedCandles), d)))

\* The last closed candle is the first candle of the other direction after
\* a run of at least N candles.
TerminationDue ==
    /\ Len(ClosedCandles) >= 1
    /\ \E d \in {"up", "down"} :
          /\ DirectionOf(ClosedCandles[Len(ClosedCandles)]) = d
          /\ RLe(last.min_n_to_alert,
                 RInt(RunEndingAt(ClosedCandles, Len(ClosedCandles) - 1, Opposite(d))))

\* C24 as stated: a continuation candidate exactly when the run ending at
\* the last closed candle has length >= N, a termination candidate exactly
\* when the last closed candle is the first opposite candle after a run of
\* length >= N.
C24_CandidatesExactlyWhenRunQualifies ==
    last.done => /\ ContinuationProduced <=> ContinuationDue
                 /\ TerminationProduced <=> TerminationDue

\* C24 amended: the equivalences hold on a series of at least N + 2 rows (and
\* at least 3); on a shorter series nothing is produced. The counts carried
\* by the candidates are the lengths of the runs, taken over closed candles.
C24_CandidatesWhenSeriesLongEnough ==
    last.done =>
        IF RLe(RAdd(last.min_n_to_alert, RInt(2)), RInt(Len(call.df))) /\ Len(call.df) >= 3
        THEN /\ ContinuationProduced <=> ContinuationDue
             /\ TerminationProduced <=> TerminationDue
             /\ \A i \in DOMAIN last.candidates :
                   LET c == last.candidates[i] IN
                   c.count = IF c.kind = "CONTINUOUS_UP"
                             THEN RunEndingAt(ClosedCandles, Len(ClosedCandles), "up")
                             ELSE IF c.kind = "CONTINUOUS_DOWN"
                             THEN RunEndingAt(ClosedCandles, Len(ClosedCandles), "down")
                             ELSE IF c.kind = "REVERSAL_UP"
                             THEN RunEndingAt(ClosedCandles, Len(ClosedCandles) - 1, "down")
                             ELSE RunEndingAt(ClosedCandles, Len(ClosedCandles) - 1, "up")
        ELSE last.candidates = <<>>

\* A run that a candle with close equal to open has cut short of N, and a
\* series on which a termination and a continuation are produced.
C24_Witness ==
    /\ last.done
    /\ Len(call.df) = MaxBars
    /\ DirectionOf(call.df[2]) = "none"
    /\ AllOf(call.df, 3, 4, "up") /\ DirectionOf(call.df[1]) = "up"
    /\ last.min_n_to_alert = R(3, 1)
    /\ last.candidates = <<>>

C24_WitnessBoth ==
    /\ last.done
    /\ TerminationProduced /\ ContinuationProduced
    /\ Len(notification_queue) = 2

-----------------------------------------------------------------------------
(* One scan cycle after the other: run_signal_check_cycle (SpecCycle)      *)

\* Cycles the scheduler starts in the model.
MaxCycles == 2

\* How _run_broad_funding_scan ends: switched off (line 105), no symbol list
\* (get_top_n_symbols_by_volume returned [] after its attempts, line 122), an
\* exception raised inside it, or every symbol checked.
FundingScanOutcomes == {"disabled", "no_list", "raised", "scanned"}

\* What the ticker fetch of _update_cache yields: nothing after the last
\* attempt, or the symbols ranked by volume.
DynamicLists == {<<>>, <<Sym("A")>>}

\* market_settings.static_symbols, resolved in the primary market.
StaticLists == {<<>>, <<Sym("B")>>}

\* What a TechScan task does when its future is collected.
TaskOutcomes == {"ok", "signal", "raised"}

\* Mutant: an exception of the funding scan ends the cycle.
AfterFundingScan_RaiseEndsCycle(outcome) == IF outcome = "raised" THEN "failed" ELSE "cache"

\* Lines 157-160: where run_signal_check_cycle goes on after the funding
\* scan has ended with `outcome`.
AfterFundingScan(outcome) == "cache"

\* Lines 182-187: where the collecting loop goes on after a future ended
\* with `outcome`.
AfterTask(outcome) == "candles"

CycleIdle(cycle, failures) ==
    [phase |-> "idle", cycle |-> cycle, funding |-> "-", pending |-> {}, started |-> 0,
     finished |-> 0, failures |-> failures]

InitCycle ==
    /\ now = 0
    /\ alerted_states = EmptyStates
    /\ cooldown_file = NoFile
    /\ notification_queue = <<>>
    /\ running = TRUE
    /\ last = [cycle |-> 0, funding |-> "-", listed |-> 0, finished |-> 0]
    /\ cached_top_symbols = <<>>
    /\ thr = CycleIdle(0, 0)
    /\ recorded = <<>>
    /\ upd = <<>>
    /\ rdr = <<>>
    /\ call \in [statics : StaticLists]

\* The scheduler (or main, for the first cycle) calls run_signal_check_cycle.
cycle_start ==
    /\ thr.phase = "idle"
    /\ thr.cycle < MaxCycles
    /\ thr' = [thr EXCEPT !.phase = "funding", !.cycle = @ + 1]
    /\ recorded' = <<>>
    /\ UNCHANGED <<now, alerted_states, cooldown_file, notification_queue, running, last,
                   cached_top_symbols, upd, rdr, call>>

\* Lines 157-160: _run_broad_funding_scan inside its try. The checks of a
\* scanned list pass no candle series and leave map, file and queue alone
\* (check_funding_task).
cycle_funding_scan ==
    /\ thr.phase = "funding"
    /\ \E outcome \in FundingScanOutcomes :
          /\ thr' = [thr EXCEPT !.phase = AfterFundingScan(outcome), !.funding = outcome,
                                !.failures = @ + (IF outcome \in {"raised", "no_list"}
                                                  THEN 1 ELSE 0)]
          /\ recorded' = Append(recorded, "funding")
    /\ UNCHANGED <<now, alerted_states, cooldown_file, notification_queue, running, last,
                   cached_top_symbols, upd, rdr, call>>

\* Lines 163-180: the ranked list is refreshed; an empty list ends the cycle
\* (line 174), otherwise one task per symbol is submitted.
cycle_update_cache ==
    /\ thr.phase = "cache"
    /\ \E dynamic_symbols_list \in DynamicLists :
          LET refreshed == final_list(dynamic_symbols_list, call.statics) IN
          /\ cached_top_symbols' = refreshed
          /\ recorded' = Append(recorded, "cache")
          /\ IF refreshed = <<>>
             THEN /\ thr' = CycleIdle(thr.cycle, thr.failures)
                  /\ last' = [cycle |-> thr.cycle, funding |-> thr.funding, listed |-> 0,
                              finished |-> 0]
             ELSE /\ thr' = [thr EXCEPT !.phase = "candles",
                                        !.pending = Range(refreshed),
                                        !.started = Len(refreshed)]
                  /\ UNCHANGED last
    /\ UNCHANGED <<now, alerted_states, cooldown_file, notification_queue, running, upd, rdr,
                   call>>

\* Lines 182-187: the future of one _check_symbol_all_strategies task is
\* collected. A task that found a signal has run
\* _prepare_and_send_notification for it.
cycle_collect_task ==
    /\ thr.phase = "candles"
    /\ \E symbol \in thr.pending, outcome \in TaskOutcomes, timeframe \in Timeframes :
          /\ thr' = [thr EXCEPT !.phase = AfterTask(outcome), !.pending = @ \ {symbol},
                                !.finished = @ + 1,
                                !.failures = @ + (IF outcome = "raised" THEN 1 ELSE 0)]
          /\ recorded' = Append(recorded, "candles")
          /\ IF outcome = "signal"
             THEN \E signal_info \in SignalInfos(symbol, timeframe) :
                     LET out == GateOutcome(Config, symbol, timeframe,
                                            DataFrame(0, 1, <<4, 4, 1>>), signal_info,
                                            cached_top_symbols, alerted_states, now, now)
                         inserted ==
                             Inserted(alerted_states, signal_info.alert_key,
                                      CooldownExpiry(signal_info,
                                                     timeframe_to_minutes(timeframe), now))
                     IN IF out[1] = "sent" /\ Len(notification_queue) < MaxQueue
                        THEN /\ notification_queue' =
                                    Enqueued(notification_queue, symbol, signal_info.alert_key)
                             /\ alerted_states' = SavedStates(inserted, now, "ok")
                             /\ cooldown_file' =
                                    WriteFile(cooldown_file, active_states(inserted, now), "ok")
                        ELSE UNCHANGED <<alerted_states, cooldown_file, notification_queue>>
             ELSE UNCHANGED <<alerted_states, cooldown_file, notification_queue>>
    /\ UNCHANGED <<now, running, last, cached_top_symbols, upd, rdr, call>>

\* Line 189: every future has been collected, run_signal_check_cycle returns.
cycle_end ==
    /\ thr.phase = "candles"
    /\ thr.pending = {}
    /\ last' = [cycle |-> thr.cycle, funding |-> thr.funding,
                listed |-> Len(cached_top_symbols), finished |-> thr.finished]
    /\ thr' = CycleIdle(thr.cycle, thr.failures)
    /\ UNCHANGED <<now, alerted_states, cooldown_file, notification_queue, running,
                   cached_top_symbols, recorded, upd, rdr, call>>

NextCycle ==
    \/ FundingTick
    \/ cycle_start
    \/ cycle_funding_scan
    \/ cycle_update_cache
    \/ cycle_collect_task
    \/ cycle_end

SpecCycle == InitCycle /\ [][NextCycle]_vars

\* The steps of the current cycle are the funding scan, the cache refresh
\* and the candle tasks, in this order.
FundingFirst ==
    /\ \A i \in DOMAIN recorded :
          /\ recorded[i] = "funding" <=> i = 1
          /\ recorded[i] = "cache" <=> i = 2
    /\ thr.phase \in {"cache", "candles"} => thr.funding # "-"

\* C25: in every cycle the funding scan comes first and the candle scan
\* second; however the funding scan ended, the candle scan of the cycle runs
\* a task for every symbol of the refreshed list; and no failure of the
\* funding scan or of a task leaves the cycle anywhere but at its normal
\* end, from which the next cycle starts.
C25_FundingFailureDoesNotStopCandleScan ==
    /\ FundingFirst
    /\ thr.phase \in {"idle", "funding", "cache", "candles"}
    /\ thr.phase = "candles" => thr.started = Len(cached_top_symbols)
    /\ last.cycle > 0 => /\ last.funding \in FundingScanOutcomes
                         /\ last.finished = last.listed
    /\ thr.phase = "idle" => last.cycle = thr.cycle

\* A second cycle scans candles after a first cycle in which the funding
\* scan raised and a task raised; and a cycle whose funding scan had no
\* list has scanned its candles.
C25_Witness ==
    /\ thr.cycle = 2 /\ thr.phase = "candles" /\ thr.funding = "no_list"
    /\ thr.finished >= 1
    /\ thr.failures >= 3
    /\ last.cycle = 1 /\ last.funding = "raised" /\ last.finished = last.listed
    /\ last.listed >= 1

-----------------------------------------------------------------------------
(* The saves of one scan cycle, interleaved (SpecSave)                     *)

\* How the save_alert_states call of a worker ended.
SaveResults == {"-", "saved", "raised"}

\* The workers of one cycle are about to check their candidates on a
\* writable disk.
InitSave ==
    /\ now = 0
    /\ alerted_states \in ExitStates
    /\ cooldown_file = JsonFile(alerted_states)
    /\ notification_queue = <<>>
    /\ running = TRUE
    /\ last = NoSend
    /\ cached_top_symbols = RankedList
    /\ thr = [t \in Threads |-> WorkerAt("ready")]
    /\ recorded = NoRecorded
    /\ upd = [t \in Threads |-> "-"]
    /\ rdr = <<>>
    /\ call = <<>>

\* state.py line 38 as in save_iterate; upd keeps how the call ended: a
\* dictionary that changed size raises RuntimeError, which line 44 logs.
cycle_save_iterate(t) ==
    /\ thr[t].pc = "iterate"
    /\ IF Cardinality(DOMAIN alerted_states) # thr[t].size
       THEN /\ thr' = [thr EXCEPT ![t] = WorkerAt("done")]
            /\ upd' = [upd EXCEPT ![t] = "raised"]
       ELSE /\ thr' = [thr EXCEPT ![t] =
                          [WorkerAt("clear") EXCEPT
                              !.active_states = active_states(alerted_states, thr[t].now_utc)]]
            /\ UNCHANGED upd
    /\ UNCHANGED <<now, alerted_states, cooldown_file, notification_queue, running, last,
                   cached_top_symbols, recorded, rdr, call>>

\* state.py lines 41-42 on a writable disk; the call returns.
cycle_save_write(t) ==
    /\ thr[t].pc = "write"
    /\ cooldown_file' = WriteFile(cooldown_file, thr[t].active_states, "ok")
    /\ thr' = [thr EXCEPT ![t] = WorkerAt("done")]
    /\ upd' = [upd EXCEPT ![t] = "saved"]
    /\ UNCHANGED <<now, alerted_states, notification_queue, running, last,
                   cached_top_symbols, recorded, rdr, call>>

NextSave ==
    \/ TickConc
    \/ consumer_get
    \/ \E t \in Threads :
          \/ gate_get(t)
          \/ gate_compare(t)
          \/ thread_send_alert(t)
          \/ thread_insert(t)
          \/ save_begin(t)
          \/ cycle_save_iterate(t)
          \/ save_clear(t)
          \/ save_update(t)
          \/ cycle_save_write(t)

SpecSave == InitSave /\ [][NextSave]_vars

WorkersFinished == \A t \in Threads : thr[t].pc = "done"

\* C26: when all workers of the cycle have finished, the in-memory map holds
\* every key for which a notification was enqueued during the cycle and
\* whose expiry is still in the future.
C26_InsertedEntrySurvivesPrune ==
    WorkersFinished =>
        \A k \in Keys : recorded[k] > now =>
            k \in DOMAIN alerted_states /\ alerted_states[k] = recorded[k]

\* C27: when all save_alert_states calls of the cycle have returned without
\* an error, the cooldown file holds exactly the unexpired entries of the
\* in-memory map.
C27_FileHoldsUnexpiredEntriesOfMap ==
    (/\ WorkersFinished
     /\ \A t \in Threads : upd[t] # "raised"
     /\ \E t \in Threads : upd[t] = "saved")
    => /\ cooldown_file.kind = "json"
       /\ \A k \in DOMAIN alerted_states : alerted_states[k] > now =>
             /\ k \in DOMAIN cooldown_file.data
             /\ fromisoformat(cooldown_file.data[k]) = alerted_states[k]
       /\ \A k \in DOMAIN cooldown_file.data : fromisoformat(cooldown_file.data[k]) > now =>
             /\ k \in DOMAIN alerted_states
             /\ alerted_states[k] = fromisoformat(cooldown_file.data[k])

-----------------------------------------------------------------------------
(* Exit and restart: the cooldown map through the file (SpecRestart)       *)

\* Expiry instants of the entries in the map before the exit: within the
\* minute, later in the hour, at and after the next midnight.
RestartExpiries ==
    {1, 3, 60 * TicksPerMinute + 1, DayTicks, DayTicks + 61 * TicksPerMinute + 1}

RestartStates ==
    UNION {[S -> RestartExpiries] : S \in SUBSET Keys}

InitRestart ==
    /\ now = 0
    /\ alerted_states \in RestartStates
    /\ cooldown_file = NoFile
    /\ notification_queue = <<>>
    /\ running = TRUE
    /\ last = [op |-> "init", at |-> 0, write |-> "-"]
    /\ cached_top_symbols = RankedList
    /\ thr = <<>>
    /\ recorded = EmptyStates
    /\ upd = <<>>
    /\ rdr = <<>>
    /\ call = <<>>

\* handle_exit, main.py lines 20-24: save_alert_states, then sys.exit; the
\* memory of the process is gone. recorded keeps the entries of the latest
\* save that wrote the file.
restart_handle_exit ==
    /\ running
    /\ \E write \in WriteOutcomes :
          /\ cooldown_file' = WriteFile(cooldown_file, active_states(alerted_states, now), write)
          /\ recorded' = IF write = "ok" THEN active_states(alerted_states, now) ELSE recorded
          /\ last' = [op |-> "exit", at |-> now, write |-> write]
    /\ running' = FALSE
    /\ alerted_states' = EmptyStates
    /\ UNCHANGED <<now, notification_queue, cached_top_symbols, thr, upd, rdr, call>>

\* main.py line 37 of the next process: load_alert_states.
restart_load_alert_states ==
    /\ ~running
    /\ running' = TRUE
    /\ alerted_states' = LoadedStates(cooldown_file, now)
    /\ last' = [op |-> "load", at |-> now, write |-> "-"]
    /\ UNCHANGED <<now, cooldown_file, notification_queue, cached_top_symbols, thr, recorded,
                   upd, rdr, call>>

NextRestart ==
    \/ FundingTick
    \/ restart_handle_exit
    \/ restart_load_alert_states

SpecRestart == InitRestart /\ [][NextRestart]_vars

\* C28: after load_alert_states the map holds exactly the saved entries
\* whose expiry is later than the load time, with the expiry they were saved
\* with, so every such key is still cooling; it is empty when the file is
\* missing or cannot be parsed.
C28_LoadRestoresUnexpiredSavedEntries ==
    last.op = "load" =>
        IF cooldown_file.kind = "json"
        THEN /\ DOMAIN alerted_states = {k \in DOMAIN recorded : recorded[k] > last.at}
             /\ \A k \in DOMAIN alerted_states :
                   /\ alerted_states[k] = recorded[k]
                   /\ InCooldown(alerted_states, k, last.at)
        ELSE alerted_states = EmptyStates

\* A load that restored an entry with an expiry off the whole minute and
\* dropped an entry that had expired since the save.
C28_Witness ==
    /\ last.op = "load"
    /\ cooldown_file.kind = "json"
    /\ \E k \in DOMAIN alerted_states : alerted_states[k] % TicksPerMinute # 0
    /\ \E k \in DOMAIN recorded : k \notin DOMAIN alerted_states

-----------------------------------------------------------------------------
(* Exit while notifications are queued *)

\* C29: when the process exits on SIGINT or SIGTERM, no notification that
\* is still in the queue (enqueued, never taken by the consumer) has its
\* cooldown entry in the file the exit leaves behind.
C29_NoQueuedNotificationLostAtExit ==
    [][(running /\ ~running') =>
          \A i \in DOMAIN notification_queue :
              notification_queue[i].key \notin DOMAIN cooldown_file'.data]_vars

-----------------------------------------------------------------------------
(* The value of an appended static symbol (SpecStatic)                     *)

\* dynamic_volume_multipliers with a default of its own, for the two methods
\* that take their scale from the list.
StaticDynConfs ==
    {[keys |-> {"enabled", "method", "min_multiplier", "max_multiplier", "default_multiplier",
                "rank_step_size"},
      enabled |-> TRUE, method |-> m, min_multiplier |-> R(1, 1), max_multiplier |-> R(3, 1),
      default_multiplier |-> R(5, 1), rank_step_size |-> 1] : m \in {"linear", "linear_stepped"}}

NoStaticCall ==
    [done |-> FALSE, symbol |-> NoKey.symbol, dynamic_symbols_list |-> <<>>, cached |-> <<>>,
     method |-> "-", default_multiplier |-> R(0, 1), result |-> R(0, 1)]

InitStatic ==
    /\ now = 0
    /\ alerted_states = <<>>
    /\ cooldown_file = <<>>
    /\ notification_queue = <<>>
    /\ running = TRUE
    /\ last = CacheLast("init")
    /\ cached_top_symbols = <<>>
    /\ thr = <<>>
    /\ recorded = NoStaticCall
    /\ upd = <<>>
    /\ rdr = <<>>
    /\ call = <<>>

\* _update_cache, lines 28-50, as in update_cache.
static_update_cache ==
    /\ \E fetched \in BOOLEAN, tickers \in Tickers :
       \E dynamic_symbols_list \in
              ProviderLists(fetched, tickers, Config.top_n_for_signals) :
          /\ cached_top_symbols' =
                 final_list(dynamic_symbols_list, static_symbols_list(Config))
          /\ last' = [CacheLast("update_cache") EXCEPT
                         !.fetched = fetched,
                         !.tickers = IF fetched THEN tickers ELSE NoTickers,
                         !.dynamic_symbols_list = dynamic_symbols_list]
    /\ UNCHANGED <<now, alerted_states, cooldown_file, notification_queue, running, thr,
                   recorded, upd, rdr, call>>

\* _calculate_dynamic_value for a configured static symbol, on the list the
\* latest refresh left.
static_value_call ==
    /\ last.op = "update_cache"
    /\ \E dyn_conf \in StaticDynConfs, i \in DOMAIN Config.static_symbols :
          LET symbol == Sym(Config.static_symbols[i]) IN
          recorded' = [done |-> TRUE, symbol |-> symbol,
                       dynamic_symbols_list |-> last.dynamic_symbols_list,
                       cached |-> cached_top_symbols,
                       method |-> dyn_conf.method,
                       default_multiplier |-> dyn_conf.default_multiplier,
                       result |-> calculate_dynamic_value(symbol, dyn_conf, R(7, 1), Config,
                                                          cached_top_symbols)]
    /\ UNCHANGED <<now, alerted_states, cooldown_file, notification_queue, running, last,
                   cached_top_symbols, thr, upd, rdr, call>>

NextStatic ==
    \/ static_update_cache
    \/ static_value_call

SpecStatic == InitStatic /\ [][NextStatic]_vars

\* C30: a static symbol that the refresh appended after the dynamic symbols
\* receives the configured default value from the linear and linear_stepped
\* methods, however many dynamic symbols the provider returned.
C30_AppendedStaticGetsDefault ==
    (/\ recorded.done
     /\ recorded.symbol \notin Range(recorded.dynamic_symbols_list)
     /\ recorded.symbol \in Range(recorded.cached))
    => REq(recorded.result, recorded.default_multiplier)

====
